---------------------------- MODULE Spec2Model ----------------------------
(***************************************************************************)
(* Safety & Compliance dashboard: the data-unification pipeline            *)
(* (SafetyDataProcessor), the loaders, the status normalisation, the       *)
(* dashboard's column filters and UltimateDashboard.load_and_process_data. *)
(*                                                                         *)
(* Text.  A Python str is a sequence of characters.  An ASCII character is *)
(* the one-character string, an Arabic letter is the string of its Unicode *)
(* name ("TEH" is U+062A), so 'in', lower() and replace() are computed on  *)
(* the characters.  A missing cell (NaN) and None are one-element          *)
(* sequences holding a token that is no character.                         *)
(*                                                                         *)
(* Tables.  A DataFrame is [columns, rows]: the column names in column     *)
(* order and the rows in row order, a row being a function from the column *)
(* names to cell values.  Column names of one table are pairwise distinct. *)
(***************************************************************************)
EXTENDS Integers, Sequences, FiniteSets, TLC

VARIABLES
    \* SafetyDataProcessor pipeline (create_unified_dataset and what follows)
    impl,            \* which of the two SafetyDataProcessor files runs
    data_sources,    \* the argument of create_unified_dataset
    unified_data,    \* its result
    kpi_data,        \* result of generate_kpi_data
    quality_report,  \* result of get_data_quality_report
    merge_in,        \* argument of a direct _merge_similar_datasets call
    merge_out,       \* its result
    pc,              \* position in the pipeline
    \* the loaders
    load_arg,        \* the file (or directory) the loader was called on
    load_result,     \* the value the loader returned
    load_raised,     \* whether the loader let an exception out
    csv_attempts,    \* the encodings handed to pd.read_csv, in call order
    \* functions from a table to a table
    df_arg,          \* the table as it was when the function was called
    df_call,         \* the function and its other arguments
    df_result,       \* the table it returned
    \* the dashboard session
    notifications,   \* st.session_state.notifications
    cache,           \* st.cache_data's entry for load_and_process_data
    returned,        \* what the last call of load_and_process_data returned
    escaped,         \* whether that call let an exception reach its caller
    load_run,        \* the last run of its body: the failing steps, the
                     \* notifications there were before
    now,             \* the clock, in ticks of HoursPerTick hours
    session,         \* the other keys of st.session_state
    last_run,        \* the last run of the script: whether it called
                     \* load_and_process_data, and where it stopped
    \* the chatbot page
    conversation_history,  \* GeminiChatbot.conversation_history
    messages,        \* st.session_state.messages
    chat,            \* the last process_query call: query, class, response
    \* the theme manager
    current_theme,   \* st.session_state.current_theme
    theme_preferences,  \* st.session_state.theme_preferences, <<>> if absent
    theme_out,       \* what the last ThemeManager call returned
    \* the export centre
    export           \* the last export_data or generate_report call

vars == <<impl, data_sources, unified_data, kpi_data, quality_report,
          merge_in, merge_out, pc,
          load_arg, load_result, load_raised, csv_attempts,
          df_arg, df_call, df_result,
          notifications, cache, returned, escaped, load_run,
          now, session, last_run,
          conversation_history, messages, chat,
          current_theme, theme_preferences, theme_out, export>>

processorVars == <<data_sources, unified_data, kpi_data, quality_report,
                   merge_in, merge_out>>

sessionVars == <<now, session, last_run>>

chatVars == <<conversation_history, messages, chat>>

themeVars == <<current_theme, theme_preferences, theme_out>>

auxVars == <<chatVars, themeVars, export>>

\* no chatbot yet, ThemeManager() constructed, nothing exported
AuxIdle ==
    /\ conversation_history = <<>>
    /\ messages = <<>>
    /\ chat = <<>>
    /\ current_theme = "light"
    /\ theme_preferences = <<>>
    /\ theme_out = <<>>
    /\ export = <<>>

\* a browser session that has not run the script yet, at time 0
SessionIdle ==
    /\ now = 0
    /\ session = <<>>
    /\ last_run = <<>>

dashVars == <<notifications, cache, returned, escaped, load_run>>

\* the dashboard has not started
DashIdle ==
    /\ notifications = <<>>
    /\ cache = <<>>
    /\ returned = <<>>
    /\ escaped = FALSE
    /\ load_run = <<>>

tableVars == <<df_arg, df_call, df_result>>

\* no table function has been called
TableIdle ==
    /\ df_call = <<>>
    /\ df_result = <<>>

loadVars == <<load_arg, load_result, load_raised, csv_attempts>>

\* no loader has been called
LoadIdle ==
    /\ load_arg = <<>>
    /\ load_result = <<>>
    /\ load_raised = FALSE
    /\ csv_attempts = <<>>

-----------------------------------------------------------------------------
(* Text *)

NaN == <<"<NaN>">>
None == <<"<None>">>

Range(s) == {s[i] : i \in DOMAIN s}

\* str.lower() on one character: only cased characters change
LowerChar(c) ==
    CASE c = "A" -> "a" [] c = "B" -> "b" [] c = "C" -> "c" [] c = "D" -> "d"
      [] c = "E" -> "e" [] c = "F" -> "f" [] c = "G" -> "g" [] c = "H" -> "h"
      [] c = "I" -> "i" [] c = "J" -> "j" [] c = "K" -> "k" [] c = "L" -> "l"
      [] c = "M" -> "m" [] c = "N" -> "n" [] c = "O" -> "o" [] c = "P" -> "p"
      [] c = "Q" -> "q" [] c = "R" -> "r" [] c = "S" -> "s" [] c = "T" -> "t"
      [] c = "U" -> "u" [] c = "V" -> "v" [] c = "W" -> "w" [] c = "X" -> "x"
      [] c = "Y" -> "y" [] c = "Z" -> "z" [] OTHER -> c

\* str.lower()
Lower(s) == [i \in DOMAIN s |-> LowerChar(s[i])]

\* kw in s
Contains(s, kw) ==
    \E i \in 0 .. (Len(s) - Len(kw)) : SubSeq(s, i + 1, i + Len(kw)) = kw

\* any(keyword in s for keyword in kws)
ContainsAny(s, kws) == \E kw \in kws : Contains(s, kw)

-----------------------------------------------------------------------------
(* Tables *)

\* pd.DataFrame()
EmptyDataFrame == [columns |-> <<>>, rows |-> <<>>]

\* df.empty: no rows or no columns
IsEmpty(df) == Len(df.rows) = 0 \/ Len(df.columns) = 0

ColumnSet(df) == Range(df.columns)

\* df[c] = v for a scalar v: a new last column, or the column overwritten
SetColumn(df, c, v) ==
    [columns |-> IF c \in ColumnSet(df) THEN df.columns ELSE Append(df.columns, c),
     rows |-> [i \in DOMAIN df.rows |->
                 [k \in ColumnSet(df) \cup {c} |->
                    IF k = c THEN v ELSE df.rows[i][k]]]]

\* the values of column c, in row order
Column(df, c) == [i \in DOMAIN df.rows |-> df.rows[i][c]]

\* list(a_set): the iteration order of a set of strings is that of the
\* process's string hashing, given here as a sequence ord holding every name
ListOf(S, ord) == SelectSeq(ord, LAMBDA c : c \in S)

RECURSIVE SeqSum(_)
SeqSum(s) == IF Len(s) = 0 THEN 0 ELSE Head(s) + SeqSum(Tail(s))

RECURSIVE Flatten(_)
Flatten(ss) == IF Len(ss) = 0 THEN <<>> ELSE Head(ss) \o Flatten(Tail(ss))

\* df[cols] for a list of column names of df
SelectColumns(df, cols) ==
    [columns |-> cols,
     rows |-> [i \in DOMAIN df.rows |-> [c \in Range(cols) |-> df.rows[i][c]]]]

\* df.reindex(columns=cols): a column df lacks is filled with NaN
Reindex(df, cols) ==
    [columns |-> cols,
     rows |-> [i \in DOMAIN df.rows |->
                 [c \in Range(cols) |->
                    IF c \in ColumnSet(df) THEN df.rows[i][c] ELSE NaN]]]

\* the columns of pd.concat(frames, sort=False): first appearance order
RECURSIVE ConcatColumns(_)
ConcatColumns(frames) ==
    IF Len(frames) = 0 THEN <<>>
    ELSE LET rest == ConcatColumns(Tail(frames))
         IN  Head(frames).columns
               \o SelectSeq(rest, LAMBDA c : c \notin ColumnSet(Head(frames)))

\* pd.concat(frames, ignore_index=True): the rows of every frame, in order
Concat(frames) ==
    LET cols == ConcatColumns(frames)
    IN  [columns |-> cols,
         rows |-> Flatten([i \in DOMAIN frames |-> Reindex(frames[i], cols).rows])]

\* df.loc[:, ~df.columns.duplicated()]: the first column of each name is kept
RECURSIVE FirstOccurrences(_)
FirstOccurrences(s) ==
    IF Len(s) = 0 THEN <<>>
    ELSE LET front == FirstOccurrences(SubSeq(s, 1, Len(s) - 1))
         IN  IF s[Len(s)] \in Range(front) THEN front ELSE Append(front, s[Len(s)])

DropDuplicatedColumns(df) ==
    [columns |-> FirstOccurrences(df.columns), rows |-> df.rows]

\* str(i) of a small index
DigitChar(d) ==
    CASE d = 0 -> "0" [] d = 1 -> "1" [] d = 2 -> "2" [] d = 3 -> "3"
      [] d = 4 -> "4" [] d = 5 -> "5" [] d = 6 -> "6" [] d = 7 -> "7"
      [] d = 8 -> "8" [] OTHER -> "9"

RECURSIVE IntStr(_)
IntStr(n) == IF n < 10 THEN <<DigitChar(n)>>
             ELSE Append(IntStr(n \div 10), DigitChar(n % 10))

-----------------------------------------------------------------------------
(* SafetyDataProcessor: unification *)

SOURCE == <<"s", "o", "u", "r", "c", "e">>
DATASET_ == <<"d", "a", "t", "a", "s", "e", "t", "_">>

\* the intersection of the column sets of all datasets
CommonColumns(datasets) ==
    {c \in ColumnSet(datasets[1]) : \A i \in DOMAIN datasets : c \in ColumnSet(datasets[i])}

AllColumns(datasets) == UNION {ColumnSet(datasets[i]) : i \in DOMAIN datasets}

\* df.drop_duplicates(): the rows equal to an earlier row are dropped
RECURSIVE DropDuplicateRows(_)
DropDuplicateRows(rows) ==
    IF Len(rows) = 0 THEN <<>>
    ELSE LET front == DropDuplicateRows(SubSeq(rows, 1, Len(rows) - 1))
         IN  IF rows[Len(rows)] \in Range(front) THEN front
             ELSE Append(front, rows[Len(rows)])

\* a merge that also drops the duplicate rows of the result
merge_similar_datasets_dedup(datasets, ord) ==
    IF Len(datasets) = 0 THEN EmptyDataFrame
    ELSE IF Len(datasets) = 1 THEN datasets[1]
    ELSE LET cols == ListOf(CommonColumns(datasets), ord)
             all == Concat([i \in DOMAIN datasets |-> SelectColumns(datasets[i], cols)])
         IN  [columns |-> all.columns, rows |-> DropDuplicateRows(all.rows)]

\* src/data_processor.py: the common columns only
merge_similar_datasets(datasets, ord) ==
    IF Len(datasets) = 0 THEN EmptyDataFrame
    ELSE IF Len(datasets) = 1 THEN datasets[1]
    ELSE LET cols == ListOf(CommonColumns(datasets), ord)
         IN  Concat([i \in DOMAIN datasets |-> SelectColumns(datasets[i], cols)])

\* src/src/utils/data_processor.py, lines 291-300: duplicate columns dropped
\* and a 'source' column added to a dataset that has none
cleaned_dataset(df, i) ==
    LET df_clean == DropDuplicatedColumns(df)
    IN  IF SOURCE \in ColumnSet(df_clean) THEN df_clean
        ELSE SetColumn(df_clean, SOURCE, DATASET_ \o IntStr(i))

\* src/src/utils/data_processor.py: the union of columns when none is common
merge_similar_datasets_utils(datasets, ord) ==
    IF Len(datasets) = 0 THEN EmptyDataFrame
    ELSE IF Len(datasets) = 1 THEN datasets[1]
    ELSE LET cleaned_datasets ==
                 [i \in DOMAIN datasets |-> cleaned_dataset(datasets[i], i - 1)]
             common_columns == CommonColumns(cleaned_datasets)
         IN  IF common_columns = {}
             THEN LET all_columns == ListOf(AllColumns(cleaned_datasets), ord)
                  IN  Concat([i \in DOMAIN cleaned_datasets |->
                                Reindex(cleaned_datasets[i], all_columns)])
             ELSE LET cols == ListOf(common_columns, ord)
                  IN  Concat([i \in DOMAIN cleaned_datasets |->
                                SelectColumns(cleaned_datasets[i], cols)])

Impls == {"data_processor", "utils.data_processor"}

\* the set of names a merge of these datasets hands to list(): only the
\* relative order of these names in the iteration order shows in the result
ListedColumns(im, datasets) ==
    IF Len(datasets) < 2 THEN {}
    ELSE IF im = "data_processor" THEN CommonColumns(datasets)
    ELSE LET cleaned_datasets ==
                 [i \in DOMAIN datasets |-> cleaned_dataset(datasets[i], i - 1)]
         IN  IF CommonColumns(cleaned_datasets) = {}
             THEN AllColumns(cleaned_datasets)
             ELSE CommonColumns(cleaned_datasets)

Merge(im, datasets, ord) ==
    IF im = "data_processor" THEN merge_similar_datasets(datasets, ord)
    ELSE merge_similar_datasets_utils(datasets, ord)

\* the keys of the unified dictionary, in the order the code fills them
Categories == <<"inspections", "incidents", "risk_assessments", "contractor_audits">>

\* U+062A U+0641 U+062A U+064A U+0634, U+062D U+0648 U+0627 U+062F U+062B,
\* U+0645 U+062E U+0627 U+0637 U+0631, U+0645 U+0642 U+0627 U+0648 U+0644 U+064A U+0646
ArabicKeyword(cat) ==
    CASE cat = "inspections" -> <<"TEH", "FEH", "TEH", "YEH", "SHEEN">>
      [] cat = "incidents" -> <<"HAH", "WAW", "ALEF", "DAL", "THEH">>
      [] cat = "risk_assessments" -> <<"MEEM", "KHAH", "ALEF", "TAH", "REH">>
      [] cat = "contractor_audits" -> <<"MEEM", "QAF", "ALEF", "WAW", "LAM", "YEH", "NOON">>

EnglishKeyword(cat) ==
    CASE cat = "inspections" -> <<"i", "n", "s", "p", "e", "c", "t", "i", "o", "n">>
      [] cat = "incidents" -> <<"i", "n", "c", "i", "d", "e", "n", "t">>
      [] cat = "risk_assessments" -> <<"r", "i", "s", "k">>
      [] cat = "contractor_audits" -> <<"c", "o", "n", "t", "r", "a", "c", "t", "o", "r">>

\* the English keyword looked up in the name as written
SourceMatches_NoLower(cat, source) ==
    \/ Contains(source, ArabicKeyword(cat))
    \/ Contains(source, EnglishKeyword(cat))

\* 'kw_ar' in source or 'kw_en' in source.lower()
SourceMatches(cat, source) ==
    \/ Contains(source, ArabicKeyword(cat))
    \/ Contains(Lower(source), EnglishKeyword(cat))

\* A value of data_sources: a DataFrame (kind "frame") or a dict of sheets
Frame(df) == [kind |-> "frame", df |-> df, sheets |-> <<>>]
Workbook(sheets) == [kind |-> "dict", df |-> EmptyDataFrame, sheets |-> sheets]

\* the tables of a source, the empty ones too
SourceTables_KeepEmpty(src) ==
    IF src.data.kind = "dict"
    THEN [i \in DOMAIN src.data.sheets |->
            SetColumn(src.data.sheets[i].df, SOURCE,
                      src.name \o <<"_">> \o src.data.sheets[i].sheet_name)]
    ELSE <<SetColumn(src.data.df, SOURCE, src.name)>>

\* the tables one matching source appends: its non-empty tables, each with
\* its 'source' column set
SourceTables(src) ==
    IF src.data.kind = "dict"
    THEN LET ne == SelectSeq(src.data.sheets, LAMBDA sh : ~IsEmpty(sh.df))
         IN  [i \in DOMAIN ne |->
                SetColumn(ne[i].df, SOURCE, src.name \o <<"_">> \o ne[i].sheet_name)]
    ELSE IF ~IsEmpty(src.data.df)
         THEN <<SetColumn(src.data.df, SOURCE, src.name)>>
         ELSE <<>>

\* inspection_data, incident_data, risk_data, contractor_data
CategoryData(cat, sources) ==
    Flatten([i \in DOMAIN sources |->
               IF SourceMatches(cat, sources[i].name)
               THEN SourceTables(sources[i]) ELSE <<>>])

\* the four lists, by category
CategoryTables(sources) == [c \in Range(Categories) |-> CategoryData(c, sources)]

\* if <list>: unified_data[<key>] = self._merge_similar_datasets(<list>)
MergeCategories(im, data, ord) ==
    [c \in {k \in DOMAIN data : Len(data[k]) > 0} |-> Merge(im, data[c], ord)]

create_unified_dataset(im, sources, ord) ==
    MergeCategories(im, CategoryTables(sources), ord)

\* data_sources after the call: df['source'] = ... assigns in place
SourcesAfterUnify(sources) ==
    [i \in DOMAIN sources |->
       IF \E c \in Range(Categories) : SourceMatches(c, sources[i].name)
       THEN [name |-> sources[i].name,
             data |->
                IF sources[i].data.kind = "dict"
                THEN Workbook([j \in DOMAIN sources[i].data.sheets |->
                        LET sh == sources[i].data.sheets[j]
                        IN  [sheet_name |-> sh.sheet_name,
                             df |-> IF IsEmpty(sh.df) THEN sh.df
                                    ELSE SetColumn(sh.df, SOURCE,
                                           sources[i].name \o <<"_">> \o sh.sheet_name)]])
                ELSE Frame(IF IsEmpty(sources[i].data.df) THEN sources[i].data.df
                           ELSE SetColumn(sources[i].data.df, SOURCE, sources[i].name))]
       ELSE sources[i]]

\* df[col].value_counts().to_dict(): the count of every value but NaN
ValueCounts(df, c) ==
    [v \in Range(Column(df, c)) \ {NaN} |->
       Cardinality({i \in DOMAIN df.rows : df.rows[i][c] = v})]

\* a.update(b)
DictUpdate(a, b) ==
    [k \in DOMAIN a \cup DOMAIN b |-> IF k \in DOMAIN b THEN b[k] ELSE a[k]]

RECURSIVE UpdateAll(_, _)
UpdateAll(df, cols) ==
    IF Len(cols) = 0 THEN <<>>
    ELSE DictUpdate(UpdateAll(df, SubSeq(cols, 1, Len(cols) - 1)),
                    ValueCounts(df, cols[Len(cols)]))

\* the columns whose lower-cased name contains one of the keywords, in order
KeywordColumns(df, kws) ==
    SelectSeq(df.columns, LAMBDA col : ContainsAny(Lower(col), kws))

\* U+062D U+0627 U+0644 U+0629
kw_status_ar == <<"HAH", "ALEF", "LAM", "TEH_MARBUTA">>
kw_status == <<"s", "t", "a", "t", "u", "s">>
kw_state == <<"s", "t", "a", "t", "e">>
\* U+0625 U+062F U+0627 U+0631 U+0629
kw_department_ar == <<"ALEF_WITH_HAMZA_BELOW", "DAL", "ALEF", "REH", "TEH_MARBUTA">>
\* U+0642 U+0637 U+0627 U+0639
kw_sector_ar == <<"QAF", "TAH", "ALEF", "AIN">>
kw_department == <<"d", "e", "p", "a", "r", "t", "m", "e", "n", "t">>
kw_sector == <<"s", "e", "c", "t", "o", "r">>
\* U+0646 U+0634 U+0627 U+0637
kw_activity_ar == <<"NOON", "SHEEN", "ALEF", "TAH">>
kw_activity == <<"a", "c", "t", "i", "v", "i", "t", "y">>
\* U+062A U+0635 U+0646 U+064A U+0641
kw_classification_ar == <<"TEH", "SAD", "NOON", "YEH", "FEH">>
\* U+0648 U+062D U+062F U+0629
kw_unit_ar == <<"WAW", "HAH", "DAL", "TEH_MARBUTA">>
kw_unit == <<"u", "n", "i", "t">>

get_status_distribution(df) ==
    UpdateAll(df, KeywordColumns(df, {kw_status_ar, kw_status}))

get_department_distribution(df) ==
    UpdateAll(df, KeywordColumns(df, {kw_department_ar, kw_sector_ar, kw_department, kw_sector}))

get_activity_distribution(df) ==
    UpdateAll(df, KeywordColumns(df, {kw_activity_ar, kw_activity, kw_classification_ar}))

\* the tables of the model hold text (dtype object): no datetime64 column
get_date_range(df) == None

generate_kpi_data(unified) ==
    [k \in {d \in DOMAIN unified : ~IsEmpty(unified[d])} |->
       [total_records |-> Len(unified[k].rows),
        date_range |-> get_date_range(unified[k]),
        status_distribution |-> get_status_distribution(unified[k]),
        department_distribution |-> get_department_distribution(unified[k]),
        activity_distribution |-> get_activity_distribution(unified[k])]]

\* df.isnull().sum().sum()
NullCount(df) ==
    Cardinality({<<i, c>> \in (DOMAIN df.rows) \X ColumnSet(df) : df.rows[i][c] = NaN})

\* df.duplicated(keep=False).sum(): the rows equal to any other row
DuplicatedCount_KeepFalse(df) ==
    Cardinality({i \in DOMAIN df.rows :
                   \E j \in DOMAIN df.rows : j # i /\ df.rows[j] = df.rows[i]})

\* df.duplicated().sum(): the rows equal to an earlier row
DuplicatedCount(df) ==
    Cardinality({i \in DOMAIN df.rows : \E j \in 1 .. (i - 1) : df.rows[j] = df.rows[i]})

\* missing_data_percentage is the float (nulls / (rows * columns)) * 100, kept
\* here as the exact fraction num / den; data_types and memory_usage are
\* properties of the pandas storage and are left out
get_data_quality_report(unified) ==
    [k \in {d \in DOMAIN unified : ~IsEmpty(unified[d])} |->
       [total_rows |-> Len(unified[k].rows),
        total_columns |-> Len(unified[k].columns),
        missing_data_percentage |->
            [num |-> NullCount(unified[k]) * 100,
             den |-> Len(unified[k].rows) * Len(unified[k].columns)],
        duplicate_rows |-> DuplicatedCount(unified[k])]]

-----------------------------------------------------------------------------
(* SafetyDataProcessor: status normalisation and the loaders *)

\* U+0645 U+0641 U+062A U+0648 U+062D, U+0645 U+063A U+0644 U+0642
MAFTUH == <<"MEEM", "FEH", "TEH", "WAW", "HAH">>
MUGHLAQ == <<"MEEM", "GHAIN", "LAM", "QAF">>

key_maftuh_Open ==
    <<"MEEM", "FEH", "TEH", "WAW", "HAH", " ", "-", " ", "O", "p", "e", "n">>
key_mughlaq_Close ==
    <<"MEEM", "GHAIN", "LAM", "QAF", " ", "-", " ", "C", "l", "o", "s", "e">>
key_mughlaq_Closed ==
    <<"MEEM", "GHAIN", "LAM", "QAF", " ", "-", " ", "C", "l", "o", "s", "e", "d">>
key_Closed_Close ==
    <<"C", "l", "o", "s", "e", "d", " ", "-", " ", "C", "l", "o", "s", "e">>
key_Open == <<"O", "p", "e", "n">>
key_Close == <<"C", "l", "o", "s", "e">>
key_Closed == <<"C", "l", "o", "s", "e", "d">>

status_mappings ==
    (key_maftuh_Open :> MAFTUH) @@ (key_mughlaq_Close :> MUGHLAQ)
      @@ (key_mughlaq_Closed :> MUGHLAQ) @@ (key_Closed_Close :> MUGHLAQ)
      @@ (key_Open :> MAFTUH) @@ (key_Close :> MUGHLAQ) @@ (key_Closed :> MUGHLAQ)

\* Series.map(d): the value of a key, NaN for anything else
MapDict(v, d) == IF v \in DOMAIN d THEN d[v] ELSE NaN

\* Series.fillna(other): the other series' value where this one is missing
FillNa(v, other) == IF v = NaN THEN other ELSE v

\* a normalisation that looks for the English word inside the value,
\* whatever its case
StatusValue_CaseFolded(v) ==
    IF v = NaN THEN NaN
    ELSE IF Contains(Lower(v), <<"o", "p", "e", "n">>) THEN MAFTUH
    ELSE IF Contains(Lower(v), <<"c", "l", "o", "s", "e">>) THEN MUGHLAQ
    ELSE v

\* df[col].map(status_mappings).fillna(df[col]) on one cell
StatusValue(v) == FillNa(MapDict(v, status_mappings), v)

IsStatusColumn(col) == ContainsAny(Lower(col), {kw_status_ar, kw_status, kw_state})

standardize_status_values(df) ==
    [columns |-> df.columns,
     rows |-> [i \in DOMAIN df.rows |->
                 [c \in ColumnSet(df) |->
                    IF IsStatusColumn(c) THEN StatusValue(df.rows[i][c])
                    ELSE df.rows[i][c]]]]

\* _clean_dataframe on the tables the loaders of this model read: tables
\* that dropna, the header-row promotion, the type conversion and the text
\* cleaning leave as they are (no all-empty row or column, at most half of
\* the first row filled, stripped text, no date or number column), so that
\* the status normalisation is the step that shows
clean_dataframe(df) ==
    IF IsEmpty(df) THEN df ELSE standardize_status_values(df)

\* encodings = ['utf-8', 'utf-8-sig', 'cp1256', 'iso-8859-1']
Encodings == <<"utf-8", "utf-8-sig", "cp1256", "iso-8859-1">>
LAST_RESORT == "utf-8 errors=ignore"

\* What one pd.read_csv / pd.read_excel call does on a file or sheet: it
\* returns df ("ok"), raises UnicodeDecodeError, or raises something else
\* ("Error": no such file, a parser error, an unknown keyword argument);
\* clean_raises says whether _clean_dataframe raises on what was read.
Read(kind, df, clean_raises) == [kind |-> kind, df |-> df, clean_raises |-> clean_raises]

\* the try block of load_csv_data in src/data_processor.py
load_csv_data_body(file) ==
    LET o == file.read["utf-8"]
    IN  [attempts |-> <<"utf-8">>,
         exc |-> o.kind # "ok" \/ o.clean_raises,
         df |-> IF o.kind = "ok" /\ ~o.clean_raises THEN clean_dataframe(o.df)
                ELSE EmptyDataFrame]

\* try: ... except Exception: return pd.DataFrame()
load_csv_data(file) ==
    LET b == load_csv_data_body(file)
    IN  [attempts |-> b.attempts, raised |-> FALSE,
         df |-> IF b.exc THEN EmptyDataFrame ELSE b.df]

\* a loop that keeps trying after a successful read: the last success wins
RECURSIVE try_encodings_nobreak(_, _)
try_encodings_nobreak(file, encodings) ==
    IF Len(encodings) = 0 THEN [attempts |-> <<>>, outcome |-> Read("none", EmptyDataFrame, FALSE)]
    ELSE LET o == file.read[Head(encodings)]
             rest == try_encodings_nobreak(file, Tail(encodings))
         IN  IF o.kind = "Error"
             THEN [attempts |-> <<Head(encodings)>>, outcome |-> o]
             ELSE [attempts |-> <<Head(encodings)>> \o rest.attempts,
                   outcome |-> IF rest.outcome.kind = "none" /\ o.kind = "ok"
                               THEN o ELSE rest.outcome]

\* for encoding in encodings: try: df = pd.read_csv(...); break
\*                            except UnicodeDecodeError: continue
\* outcome is the read that ended the loop, of kind "none" when the list ran out
RECURSIVE try_encodings(_, _)
try_encodings(file, encodings) ==
    IF Len(encodings) = 0 THEN [attempts |-> <<>>, outcome |-> Read("none", EmptyDataFrame, FALSE)]
    ELSE LET o == file.read[Head(encodings)]
         IN  IF o.kind = "UnicodeDecodeError"
             THEN LET rest == try_encodings(file, Tail(encodings))
                  IN  [attempts |-> <<Head(encodings)>> \o rest.attempts,
                       outcome |-> rest.outcome]
             ELSE [attempts |-> <<Head(encodings)>>, outcome |-> o]

\* the try block of load_csv_data in src/src/utils/data_processor.py
load_csv_data_utils_body(file) ==
    LET t == try_encodings(file, Encodings)
        o == IF t.outcome.kind = "none" THEN file.last_resort ELSE t.outcome
    IN  [attempts |-> IF t.outcome.kind = "none"
                      THEN t.attempts \o <<LAST_RESORT>> ELSE t.attempts,
         exc |-> o.kind # "ok" \/ o.clean_raises,
         df |-> IF o.kind = "ok" /\ ~o.clean_raises THEN clean_dataframe(o.df)
                ELSE EmptyDataFrame]

\* the body without its try/except: an exception leaves the function
load_csv_data_utils_unguarded(file) ==
    LET b == load_csv_data_utils_body(file)
    IN  [attempts |-> b.attempts, raised |-> b.exc, df |-> b.df]

load_csv_data_utils(file) ==
    LET b == load_csv_data_utils_body(file)
    IN  [attempts |-> b.attempts, raised |-> FALSE,
         df |-> IF b.exc THEN EmptyDataFrame ELSE b.df]

SheetFails(sh) == sh.read.kind # "ok" \/ sh.read.clean_raises

\* src/data_processor.py: one failing sheet loses the whole workbook
load_excel_data(wb) ==
    IF ~wb.exists \/ ~wb.opens \/ \E i \in DOMAIN wb.sheets : SheetFails(wb.sheets[i])
    THEN [raised |-> FALSE, sheets |-> <<>>]
    ELSE [raised |-> FALSE,
          sheets |-> [i \in DOMAIN wb.sheets |->
                        [sheet_name |-> wb.sheets[i].sheet_name,
                         df |-> clean_dataframe(wb.sheets[i].read.df)]]]

\* src/src/utils/data_processor.py: a failing or empty sheet is left out
load_excel_data_utils(wb) ==
    IF ~wb.exists \/ ~wb.opens
    THEN [raised |-> FALSE, sheets |-> <<>>]
    ELSE LET kept == SelectSeq(wb.sheets,
                       LAMBDA sh : ~SheetFails(sh) /\ ~IsEmpty(clean_dataframe(sh.read.df)))
         IN  [raised |-> FALSE,
              sheets |-> [i \in DOMAIN kept |->
                            [sheet_name |-> kept[i].sheet_name,
                             df |-> clean_dataframe(kept[i].read.df)]]]

\* 'sample-of-data.xlsx', 'power-bi-copy-v.02.xlsx'
excel_files ==
    << <<"s", "a", "m", "p", "l", "e", "-", "o", "f", "-", "d", "a", "t", "a",
         ".", "x", "l", "s", "x">>,
       <<"p", "o", "w", "e", "r", "-", "b", "i", "-", "c", "o", "p", "y", "-",
         "v", ".", "0", "2", ".", "x", "l", "s", "x">> >>

\* SafetyDataProcessor.load_all_data (src/src/utils/data_processor.py) on a
\* database directory dir = [exists, excel (one workbook per name of
\* excel_files), csv (the .csv entries as os.listdir gives them)]
load_all_data_utils(dir) ==
    IF ~dir.exists
    THEN [raised |-> TRUE, all_data |-> <<>>]      \* os.listdir raises
    ELSE LET present == SelectSeq([i \in DOMAIN excel_files |-> i],
                                  LAMBDA i : dir.excel[i].exists)
             excel == [k \in DOMAIN present |->
                         [name |-> excel_files[present[k]],
                          data |-> Workbook(load_excel_data_utils(dir.excel[present[k]]).sheets)]]
             loaded == [i \in DOMAIN dir.csv |->
                          [name |-> dir.csv[i].name,
                           data |-> Frame(load_csv_data_utils(dir.csv[i].file).df)]]
             csv == SelectSeq(loaded, LAMBDA e : ~IsEmpty(e.data.df))
         IN  [raised |-> FALSE, all_data |-> excel \o csv]

\* DataProcessor.load_all_data (src/app.py): every file read as 'utf-8-sig',
\* a failure reported with st.error and the file left out
load_all_data_app(dir) ==
    LET read == SelectSeq(dir.csv, LAMBDA f : f.file.read["utf-8-sig"].kind = "ok")
    IN  [raised |-> FALSE,
         all_data |-> [i \in DOMAIN read |->
                         [name |-> read[i].name,
                          data |-> Frame(read[i].file.read["utf-8-sig"].df)]]]

-----------------------------------------------------------------------------
(* UltimateDashboard: the column filters *)

\* df[df[col].isin(selected)]
IsIn(df, col, selected) ==
    [columns |-> df.columns,
     rows |-> SelectSeq(df.rows, LAMBDA r : r[col] \in selected)]

\* the filter on the last matching column instead of the first
apply_sector_filter_last(df, sectors) ==
    LET sector_cols == KeywordColumns(df, {kw_department_ar, kw_sector_ar,
                                           kw_department, kw_sector})
    IN  IF sector_cols # <<>> THEN IsIn(df, sector_cols[Len(sector_cols)], sectors)
        ELSE df

apply_sector_filter(df, sectors) ==
    LET sector_cols == KeywordColumns(df, {kw_department_ar, kw_sector_ar,
                                           kw_department, kw_sector})
    IN  IF sector_cols # <<>> THEN IsIn(df, sector_cols[1], sectors) ELSE df

apply_status_filter(df, statuses) ==
    LET status_cols == KeywordColumns(df, {kw_status_ar, kw_status})
    IN  IF status_cols # <<>> THEN IsIn(df, status_cols[1], statuses) ELSE df

apply_activity_filter(df, activities) ==
    LET activity_cols == KeywordColumns(df, {kw_activity_ar, kw_activity,
                                             kw_classification_ar})
    IN  IF activity_cols # <<>> THEN IsIn(df, activity_cols[1], activities) ELSE df

apply_department_filter(df, departments) ==
    LET dept_cols == KeywordColumns(df, {kw_department_ar, kw_unit_ar,
                                         kw_department, kw_unit})
    IN  IF dept_cols # <<>> THEN IsIn(df, dept_cols[1], departments) ELSE df

-----------------------------------------------------------------------------
(* Inputs of the unification pipeline *)

MaxSources == 2

col_Status == <<"S", "t", "a", "t", "u", "s">>
col_Sector == <<"S", "e", "c", "t", "o", "r">>
col_Activity == <<"A", "c", "t", "i", "v", "i", "t", "y">>

\* two columns, the second row a duplicate of the first
tA == [columns |-> <<col_Status, col_Sector>>,
       rows |-> << (col_Status :> MAFTUH) @@ (col_Sector :> <<"A">>),
                   (col_Status :> MAFTUH) @@ (col_Sector :> <<"A">>) >>]
\* the columns of tA in another order, one missing cell
tB == [columns |-> <<col_Sector, col_Status>>,
       rows |-> << (col_Sector :> NaN) @@ (col_Status :> MUGHLAQ) >>]
\* no column in common with tA or tB
tC == [columns |-> <<col_Activity>>,
       rows |-> << (col_Activity :> <<"B">>) >>]
\* a header and no row
tH == [columns |-> <<col_Status>>, rows |-> <<>>]
\* rows and no column
tN == [columns |-> <<>>, rows |-> << <<>>, <<>> >>]

sheet_S1 == <<"S", "1">>
sheet_S2 == <<"S", "2">>

SourceValues ==
    { Frame(tA), Frame(EmptyDataFrame),
      Workbook(<< [sheet_name |-> sheet_S1, df |-> tB],
                  [sheet_name |-> sheet_S2, df |-> tH] >>),
      Workbook(<< [sheet_name |-> sheet_S1, df |-> tA],
                  [sheet_name |-> sheet_S2, df |-> tC] >>) }

\* 'Inspection', U+0627 U+0644 U+062A U+0641 U+062A U+064A U+0634,
\* U+0627 U+0644 U+062D U+0648 U+0627 U+062F U+062B, 'Contractor_Risk_Incident',
\* U+0645 U+062E U+0627 U+0637 U+0631 _ U+0627 U+0644 U+0645 U+0642 U+0627 U+0648 U+0644 U+064A U+0646,
\* 'sample'
SourceNames ==
    { <<"I", "n", "s", "p", "e", "c", "t", "i", "o", "n">>,
      <<"ALEF", "LAM", "TEH", "FEH", "TEH", "YEH", "SHEEN">>,
      <<"ALEF", "LAM", "HAH", "WAW", "ALEF", "DAL", "THEH">>,
      <<"C", "o", "n", "t", "r", "a", "c", "t", "o", "r", "_",
        "R", "i", "s", "k", "_", "I", "n", "c", "i", "d", "e", "n", "t">>,
      <<"MEEM", "KHAH", "ALEF", "TAH", "REH", "_", "ALEF", "LAM", "MEEM", "QAF",
        "ALEF", "WAW", "LAM", "YEH", "NOON">>,
      <<"s", "a", "m", "p", "l", "e">> }

SourceCatalog == {[name |-> n, data |-> d] : n \in SourceNames, d \in SourceValues}

\* a dict keeps its insertion order and its keys are distinct
SourceLists ==
    UNION { {s \in [1 .. n -> SourceCatalog] :
               \A i, j \in 1 .. n : i # j => s[i].name # s[j].name}
            : n \in 0 .. MaxSources }

Orderings(S) ==
    {s \in [1 .. Cardinality(S) -> S] : \A i, j \in DOMAIN s : i # j => s[i] # s[j]}

\* the iteration orders of a set of column names
ColumnOrders(S) == Orderings(S)

\* arguments of a direct call of _merge_similar_datasets
MergeTables == {tA, tB, tC, SetColumn(tC, SOURCE, <<"x">>)}
MergeInputs == UNION {[1 .. n -> MergeTables] : n \in 0 .. MaxSources}

\* unified dictionaries handed to generate_kpi_data and get_data_quality_report
\* by a caller other than create_unified_dataset
GivenTables == {tA, tB, tH, tN, EmptyDataFrame}
GivenUnified ==
    {("inspections" :> a) @@ ("incidents" :> b) : a \in GivenTables, b \in GivenTables}

-----------------------------------------------------------------------------
(* The pipeline as a state machine *)

UnifyInit ==
    /\ LoadIdle
    /\ TableIdle
    /\ DashIdle
    /\ SessionIdle
    /\ AuxIdle
    /\ df_arg = <<>>
    /\ impl \in Impls
    /\ kpi_data = <<>>
    /\ quality_report = <<>>
    /\ merge_in = <<>>
    /\ merge_out = EmptyDataFrame
    /\ \/ /\ pc = "start"
          /\ data_sources \in SourceLists
          /\ unified_data = <<>>
       \/ /\ pc = "given"
          /\ data_sources = <<>>
          /\ unified_data \in GivenUnified
       \/ /\ pc = "merge"
          /\ data_sources = <<>>
          /\ unified_data = <<>>

\* the pipeline has not run
UnifyIdle ==
    /\ data_sources = <<>>
    /\ unified_data = <<>>
    /\ kpi_data = <<>>
    /\ quality_report = <<>>
    /\ merge_in = <<>>
    /\ merge_out = EmptyDataFrame

CreateUnifiedDataset ==
    /\ pc = "start"
    /\ data_sources' = SourcesAfterUnify(data_sources)
    /\ pc' = "unified"
    /\ LET data == CategoryTables(data_sources)
           listed == UNION {ListedColumns(impl, data[c]) : c \in DOMAIN data}
       IN  \E ord \in ColumnOrders(listed) :
              unified_data' = MergeCategories(impl, data, ord)
    /\ UNCHANGED <<impl, kpi_data, quality_report, merge_in, merge_out>>
    /\ UNCHANGED <<loadVars, tableVars, dashVars, sessionVars, auxVars>>

MergeSimilarDatasets ==
    /\ pc = "merge"
    /\ \E datasets \in MergeInputs :
       \E ord \in ColumnOrders(ListedColumns(impl, datasets)) :
          /\ merge_in' = datasets
          /\ merge_out' = Merge(impl, datasets, ord)
    /\ pc' = "merged"
    /\ UNCHANGED <<impl, data_sources, unified_data, kpi_data, quality_report>>
    /\ UNCHANGED <<loadVars, tableVars, dashVars, sessionVars, auxVars>>

GenerateKpiData ==
    /\ pc \in {"unified", "given"}
    /\ kpi_data' = generate_kpi_data(unified_data)
    /\ pc' = IF pc = "unified" THEN "kpis" ELSE "given_kpis"
    /\ UNCHANGED <<impl, data_sources, unified_data, quality_report, merge_in, merge_out>>
    /\ UNCHANGED <<loadVars, tableVars, dashVars, sessionVars, auxVars>>

GetDataQualityReport ==
    /\ pc \in {"kpis", "given_kpis"}
    /\ quality_report' = get_data_quality_report(unified_data)
    /\ pc' = IF pc = "kpis" THEN "done" ELSE "given_done"
    /\ UNCHANGED <<impl, data_sources, unified_data, kpi_data, merge_in, merge_out>>
    /\ UNCHANGED <<loadVars, tableVars, dashVars, sessionVars, auxVars>>

UnifyNext ==
    \/ CreateUnifiedDataset
    \/ MergeSimilarDatasets
    \/ GenerateKpiData
    \/ GetDataQualityReport

SpecUnify == UnifyInit /\ [][UnifyNext]_vars

-----------------------------------------------------------------------------
(* Claims about the unification pipeline (SpecUnify) *)

Unified == pc \in {"unified", "kpis", "done"}

\* the keyword pairs as the claim lists them
C1_Keywords(cat) ==
    CASE cat = "inspections" ->
           [ar |-> <<"TEH", "FEH", "TEH", "YEH", "SHEEN">>,
            en |-> <<"i", "n", "s", "p", "e", "c", "t", "i", "o", "n">>]
      [] cat = "incidents" ->
           [ar |-> <<"HAH", "WAW", "ALEF", "DAL", "THEH">>,
            en |-> <<"i", "n", "c", "i", "d", "e", "n", "t">>]
      [] cat = "risk_assessments" ->
           [ar |-> <<"MEEM", "KHAH", "ALEF", "TAH", "REH">>,
            en |-> <<"r", "i", "s", "k">>]
      [] cat = "contractor_audits" ->
           [ar |-> <<"MEEM", "QAF", "ALEF", "WAW", "LAM", "YEH", "NOON">>,
            en |-> <<"c", "o", "n", "t", "r", "a", "c", "t", "o", "r">>]

C1_Categories == {"inspections", "incidents", "risk_assessments", "contractor_audits"}

C1_Named(cat, name) ==
    \/ Contains(name, C1_Keywords(cat).ar)
    \/ Contains(Lower(name), C1_Keywords(cat).en)

\* the 'source' labels of the non-empty tables of the sources named for cat
C1_Labels(cat) ==
    LET named == {i \in DOMAIN data_sources : C1_Named(cat, data_sources[i].name)}
    IN  {data_sources[i].name :
           i \in {k \in named : /\ data_sources[k].data.kind = "frame"
                                /\ ~IsEmpty(data_sources[k].data.df)}}
        \cup
        UNION {{data_sources[i].name \o <<"_">> \o data_sources[i].data.sheets[j].sheet_name :
                  j \in {m \in DOMAIN data_sources[i].data.sheets :
                           ~IsEmpty(data_sources[i].data.sheets[m].df)}}
               : i \in {k \in named : data_sources[k].data.kind = "dict"}}

\* C1: create_unified_dataset assigns by source name only: the unified table
\* of a category holds exactly the non-empty tables (or sheets) of the sources
\* whose name contains the category's Arabic keyword or, lower-cased, its
\* English keyword, and the category's key is present exactly when there is
\* such a table.
C1_CategoryBySourceName ==
    Unified =>
      /\ DOMAIN unified_data \subseteq C1_Categories
      /\ \A cat \in C1_Categories :
            /\ (cat \in DOMAIN unified_data) <=> (C1_Labels(cat) # {})
            /\ (cat \in DOMAIN unified_data) =>
                  {unified_data[cat].rows[i][SOURCE] : i \in DOMAIN unified_data[cat].rows}
                    = C1_Labels(cat)

\* a source feeding two categories beside a non-empty source feeding none
C1_Witness ==
    /\ Unified
    /\ \E i \in DOMAIN data_sources :
          Cardinality({cat \in C1_Categories : data_sources[i].name \in C1_Labels(cat)}) >= 2
    /\ \E i \in DOMAIN data_sources :
          /\ data_sources[i].data.kind = "frame"
          /\ ~IsEmpty(data_sources[i].data.df)
          /\ \A cat \in C1_Categories : ~C1_Named(cat, data_sources[i].name)
    /\ \E i \in DOMAIN data_sources :
          /\ Lower(data_sources[i].name) # data_sources[i].name
          /\ \E cat \in C1_Categories : data_sources[i].name \in C1_Labels(cat)

\* the rows a source brings: those of its non-empty tables
C2_SourceRows(src) ==
    IF src.data.kind = "dict"
    THEN SeqSum([j \in DOMAIN src.data.sheets |->
                   IF IsEmpty(src.data.sheets[j].df) THEN 0
                   ELSE Len(src.data.sheets[j].df.rows)])
    ELSE IF IsEmpty(src.data.df) THEN 0 ELSE Len(src.data.df.rows)

C2_Assigned(cat) ==
    SeqSum([i \in DOMAIN data_sources |->
              IF C1_Named(cat, data_sources[i].name)
              THEN C2_SourceRows(data_sources[i]) ELSE 0])

\* C2: the unified table of a category has as many rows as the non-empty
\* source tables assigned to the category have together.
C2_RowsAreSummed ==
    Unified =>
      \A cat \in DOMAIN unified_data :
         Len(unified_data[cat].rows) = C2_Assigned(cat)

\* a unified table merged from several tables, one of them with equal rows
C2_Witness ==
    /\ Unified
    /\ \E cat \in DOMAIN unified_data :
          /\ Cardinality(C1_Labels(cat)) >= 2
          /\ Len(unified_data[cat].rows) >= 3
          /\ \E i, j \in DOMAIN unified_data[cat].rows :
                i # j /\ unified_data[cat].rows[i] = unified_data[cat].rows[j]

\* C3: merging tables that have no column name in common gives the union of
\* the columns: every column of every table, each row with its own values and
\* no value in the columns its table does not have.  (Stated for a call of
\* _merge_similar_datasets; columns the merge adds itself are not counted.)
C3_UnionOfColumns ==
    (pc = "merged" /\ Len(merge_in) >= 2 /\ CommonColumns(merge_in) = {}) =>
      /\ AllColumns(merge_in) \subseteq ColumnSet(merge_out)
      /\ [k \in DOMAIN merge_out.rows |->
            [c \in AllColumns(merge_in) |-> merge_out.rows[k][c]]]
           = Flatten([i \in DOMAIN merge_in |->
                        [j \in DOMAIN merge_in[i].rows |->
                           [c \in AllColumns(merge_in) |->
                              IF c \in ColumnSet(merge_in[i])
                              THEN merge_in[i].rows[j][c] ELSE NaN]]])

RECURSIVE C6_NullCells(_, _)
C6_NullCells(row, cols) ==
    IF Len(cols) = 0 THEN 0
    ELSE (IF row[Head(cols)] = NaN THEN 1 ELSE 0) + C6_NullCells(row, Tail(cols))

C6_Missing(df) ==
    SeqSum([i \in DOMAIN df.rows |-> C6_NullCells(df.rows[i], df.columns)])

\* C6: get_data_quality_report has, for every table with rows and columns,
\* total_rows and total_columns, missing_data_percentage = 100 * empty cells
\* / (rows * columns), within 0..100 and with a non-zero denominator, and
\* duplicate_rows = the rows identical to an earlier row; a table with no
\* rows or no columns has no entry.
C6_QualityReport ==
    (pc \in {"done", "given_done"}) =>
      /\ DOMAIN quality_report \subseteq DOMAIN unified_data
      /\ \A k \in DOMAIN unified_data :
            LET df == unified_data[k]
            IN  IF Len(df.rows) = 0 \/ Len(df.columns) = 0
                THEN k \notin DOMAIN quality_report
                ELSE /\ k \in DOMAIN quality_report
                     /\ quality_report[k].total_rows = Len(df.rows)
                     /\ quality_report[k].total_columns = Len(df.columns)
                     /\ quality_report[k].missing_data_percentage.den
                          = Len(df.rows) * Len(df.columns)
                     /\ quality_report[k].missing_data_percentage.den > 0
                     /\ quality_report[k].missing_data_percentage.num
                          = 100 * C6_Missing(df)
                     /\ quality_report[k].missing_data_percentage.num >= 0
                     /\ quality_report[k].missing_data_percentage.num
                          <= 100 * quality_report[k].missing_data_percentage.den
                     /\ quality_report[k].duplicate_rows
                          = Len(df.rows) - Cardinality(Range(df.rows))

\* a report that skips one table and counts missing cells and duplicates
C6_Witness ==
    /\ pc = "given_done"
    /\ \E k \in DOMAIN unified_data : k \notin DOMAIN quality_report
    /\ \E k \in DOMAIN quality_report :
          \/ quality_report[k].missing_data_percentage.num > 0
          \/ quality_report[k].duplicate_rows > 0

\* C7: for the tables create_unified_dataset produced, generate_kpi_data and
\* get_data_quality_report have exactly the keys of the unified dictionary,
\* and total_records and total_rows are the table's number of rows.
C7_KpiPerUnifiedTable ==
    /\ (pc \in {"kpis", "done"}) =>
          /\ DOMAIN kpi_data = DOMAIN unified_data
          /\ \A k \in DOMAIN unified_data :
                kpi_data[k].total_records = Len(unified_data[k].rows)
    /\ (pc = "done") =>
          /\ DOMAIN quality_report = DOMAIN unified_data
          /\ \A k \in DOMAIN unified_data :
                quality_report[k].total_rows = Len(unified_data[k].rows)

\* KPIs and a report for two unified tables, while a source brought an empty table
C7_Witness ==
    /\ pc = "done"
    /\ Cardinality(DOMAIN unified_data) >= 2
    /\ DOMAIN kpi_data = DOMAIN unified_data
    /\ \E i \in DOMAIN data_sources :
          /\ \E cat \in C1_Categories : C1_Named(cat, data_sources[i].name)
          /\ data_sources[i].data.kind = "dict"
          /\ \E j \in DOMAIN data_sources[i].data.sheets :
                IsEmpty(data_sources[i].data.sheets[j].df)

-----------------------------------------------------------------------------
(* The loaders as a state machine *)

MaxSheets == 2
MaxFiles == 2

\* what a file decodes to under one encoding: a table the cleaning steps
\* other than the status normalisation leave as it is
DecodedTable(e) ==
    [columns |-> <<col_Status, col_Sector>>,
     rows |-> << (col_Status :> key_Open) @@ (col_Sector :> NaN),
                 (col_Status :> NaN) @@ (col_Sector :> <<e>>) >>]

ReadCases == {"UnicodeDecodeError", "Error", "header_only", "table", "clean_raises"}

ReadCase(e, k) ==
    CASE k = "UnicodeDecodeError" -> Read("UnicodeDecodeError", EmptyDataFrame, FALSE)
      [] k = "Error" -> Read("Error", EmptyDataFrame, FALSE)
      [] k = "header_only" -> Read("ok", tH, FALSE)
      [] k = "table" -> Read("ok", DecodedTable(e), FALSE)
      [] k = "clean_raises" -> Read("ok", DecodedTable(e), TRUE)

EncodingSet == Range(Encodings)

\* pd.read_csv(file_path, encoding='utf-8', errors='ignore'): the keyword is
\* unknown to some pandas versions (TypeError) and read by others
LastResorts == {ReadCase(LAST_RESORT, "Error"), ReadCase(LAST_RESORT, "table")}

CsvFile(k, l) == [read |-> [e \in EncodingSet |-> ReadCase(e, k[e])], last_resort |-> l]

CsvFiles == {CsvFile(k, l) : k \in [EncodingSet -> ReadCases], l \in LastResorts}

SheetNames == <<sheet_S1, sheet_S2, <<"S", "3">>, <<"S", "4">> >>
SheetCases == {"Error", "header_only", "table", "clean_raises"}

Sheets(k) ==
    [i \in DOMAIN k |-> [sheet_name |-> SheetNames[i],
                         read |-> ReadCase(SheetNames[i][2], k[i])]]

MissingWorkbook == [exists |-> FALSE, opens |-> FALSE, sheets |-> <<>>]
UnreadableWorkbook == [exists |-> TRUE, opens |-> FALSE, sheets |-> <<>>]

Workbooks ==
    {MissingWorkbook, UnreadableWorkbook}
      \cup {[exists |-> TRUE, opens |-> TRUE, sheets |-> Sheets(k)] :
              k \in UNION {[1 .. n -> SheetCases] : n \in 0 .. MaxSheets}}

\* 'a.csv', 'b.csv', 'c.csv', 'd.csv'
CsvNames == << <<"a", ".", "c", "s", "v">>, <<"b", ".", "c", "s", "v">>,
               <<"c", ".", "c", "s", "v">>, <<"d", ".", "c", "s", "v">> >>

AllCases(k) == [e \in EncodingSet |-> k]

\* files of a directory: readable as utf-8; readable as utf-8-sig and not
\* as utf-8; readable as cp1256 only; unreadable; header only; not parsable
DirectoryFiles ==
    { CsvFile(AllCases("table"), ReadCase(LAST_RESORT, "table")),
      CsvFile([AllCases("table") EXCEPT !["utf-8"] = "UnicodeDecodeError"],
              ReadCase(LAST_RESORT, "table")),
      CsvFile([AllCases("UnicodeDecodeError") EXCEPT !["cp1256"] = "table"],
              ReadCase(LAST_RESORT, "Error")),
      CsvFile(AllCases("UnicodeDecodeError"), ReadCase(LAST_RESORT, "Error")),
      CsvFile(AllCases("header_only"), ReadCase(LAST_RESORT, "Error")),
      CsvFile(AllCases("Error"), ReadCase(LAST_RESORT, "Error")) }

DirectoryWorkbooks ==
    { MissingWorkbook, UnreadableWorkbook,
      [exists |-> TRUE, opens |-> TRUE, sheets |-> Sheets(<<"table", "Error">>)] }

Directories ==
    {[exists |-> FALSE, excel |-> <<MissingWorkbook, MissingWorkbook>>, csv |-> <<>>]}
      \cup {[exists |-> TRUE, excel |-> <<w1, w2>>,
             csv |-> [i \in DOMAIN f |-> [name |-> CsvNames[i], file |-> f[i]]]] :
              w1 \in DirectoryWorkbooks, w2 \in DirectoryWorkbooks,
              f \in UNION {[1 .. n -> DirectoryFiles] : n \in 0 .. MaxFiles}}

LoadInit ==
    /\ LoadIdle
    /\ UnifyIdle
    /\ TableIdle
    /\ DashIdle
    /\ SessionIdle
    /\ AuxIdle
    /\ df_arg = <<>>
    /\ \/ pc \in {"csv", "excel"} /\ impl \in Impls
       \/ pc = "all" /\ impl \in {"utils.data_processor", "app"}

LoadCsvData ==
    /\ pc = "csv"
    /\ \E file \in CsvFiles :
          LET r == IF impl = "data_processor" THEN load_csv_data(file)
                   ELSE load_csv_data_utils(file)
          IN  /\ load_arg' = file
              /\ load_result' = r.df
              /\ load_raised' = r.raised
              /\ csv_attempts' = r.attempts
    /\ pc' = "csv_loaded"
    /\ UNCHANGED <<impl, data_sources, unified_data, kpi_data, quality_report,
                   merge_in, merge_out>>
    /\ UNCHANGED <<tableVars, dashVars, sessionVars, auxVars>>

LoadExcelData ==
    /\ pc = "excel"
    /\ \E wb \in Workbooks :
          LET r == IF impl = "data_processor" THEN load_excel_data(wb)
                   ELSE load_excel_data_utils(wb)
          IN  /\ load_arg' = wb
              /\ load_result' = r.sheets
              /\ load_raised' = r.raised
    /\ pc' = "excel_loaded"
    /\ UNCHANGED <<impl, data_sources, unified_data, kpi_data, quality_report,
                   merge_in, merge_out, csv_attempts>>
    /\ UNCHANGED <<tableVars, dashVars, sessionVars, auxVars>>

\* load_all_data: the utils processor also keeps the result in data_sources
LoadAllData ==
    /\ pc = "all"
    /\ \E dir \in Directories :
          LET r == IF impl = "app" THEN load_all_data_app(dir)
                   ELSE load_all_data_utils(dir)
          IN  /\ impl = "app" => dir.exists
              /\ load_arg' = dir
              /\ load_result' = r.all_data
              /\ load_raised' = r.raised
              /\ data_sources' = IF impl = "app" \/ r.raised THEN data_sources
                                 ELSE r.all_data
    /\ pc' = "all_loaded"
    /\ UNCHANGED <<impl, unified_data, kpi_data, quality_report,
                   merge_in, merge_out, csv_attempts>>
    /\ UNCHANGED <<tableVars, dashVars, sessionVars, auxVars>>

LoadNext ==
    \/ LoadCsvData
    \/ LoadExcelData
    \/ LoadAllData

SpecLoad == LoadInit /\ [][LoadNext]_vars

-----------------------------------------------------------------------------
(* Claims about the loaders (SpecLoad) *)

C4_ReadFails(o) == o.kind # "ok" \/ o.clean_raises

\* the read that decides a CSV file: for the root processor the 'utf-8' read,
\* for the utils processor the first read that raises no decode error, the
\* last-resort read when there is none
C4_Deciding(im, file) ==
    IF im = "data_processor" THEN file.read["utf-8"]
    ELSE IF \A i \in DOMAIN Encodings : file.read[Encodings[i]].kind = "UnicodeDecodeError"
         THEN file.last_resort
         ELSE LET i == CHOOSE i \in DOMAIN Encodings :
                         /\ file.read[Encodings[i]].kind # "UnicodeDecodeError"
                         /\ \A j \in 1 .. i - 1 :
                               file.read[Encodings[j]].kind = "UnicodeDecodeError"
              IN  file.read[Encodings[i]]

C4_CsvSkipped ==
    pc = "csv_loaded" =>
       /\ ~load_raised
       /\ C4_ReadFails(C4_Deciding(impl, load_arg)) => load_result = EmptyDataFrame

C4_WorkbookFails(wb) == ~wb.exists \/ ~wb.opens

C4_ExcelSkipped ==
    pc = "excel_loaded" =>
       /\ ~load_raised
       /\ C4_WorkbookFails(load_arg) => load_result = <<>>
       /\ \A i \in DOMAIN load_arg.sheets :
             C4_ReadFails(load_arg.sheets[i].read) =>
                /\ \A k \in DOMAIN load_result :
                      load_result[k].sheet_name # load_arg.sheets[i].sheet_name
                /\ impl = "data_processor" => load_result = <<>>

\* the entry of a workbook or file in the dictionary load_all_data returns
C4_Entries(name) == {k \in DOMAIN load_result : load_result[k].name = name}

C4_SheetLoaded(wb, i) ==
    /\ ~C4_WorkbookFails(wb)
    /\ ~C4_ReadFails(wb.sheets[i].read)
    /\ wb.sheets[i].read.df.rows # <<>>

C4_OthersReturned ==
    (pc = "all_loaded" /\ load_arg.exists) =>
       /\ ~load_raised
       /\ impl = "utils.data_processor" =>
             /\ \A f \in DOMAIN load_arg.csv :
                   LET o == C4_Deciding(impl, load_arg.csv[f].file)
                   IN  IF C4_ReadFails(o) THEN C4_Entries(load_arg.csv[f].name) = {}
                       ELSE o.df.rows # <<>> =>
                              \E k \in C4_Entries(load_arg.csv[f].name) :
                                 /\ load_result[k].data.kind = "frame"
                                 /\ load_result[k].data.df.columns = o.df.columns
                                 /\ Len(load_result[k].data.df.rows) = Len(o.df.rows)
             /\ \A w \in DOMAIN load_arg.excel :
                \A i \in DOMAIN load_arg.excel[w].sheets :
                   C4_SheetLoaded(load_arg.excel[w], i) =>
                      \E k \in C4_Entries(excel_files[w]) :
                      \E j \in DOMAIN load_result[k].data.sheets :
                         /\ load_result[k].data.sheets[j].sheet_name
                              = load_arg.excel[w].sheets[i].sheet_name
                         /\ Len(load_result[k].data.sheets[j].df.rows)
                              = Len(load_arg.excel[w].sheets[i].read.df.rows)
       /\ impl = "app" =>
             \A f \in DOMAIN load_arg.csv :
                LET o == load_arg.csv[f].file.read["utf-8-sig"]
                IN  IF o.kind # "ok" THEN C4_Entries(load_arg.csv[f].name) = {}
                    ELSE \E k \in C4_Entries(load_arg.csv[f].name) :
                            load_result[k].data.df = o.df

\* C4: a failure while loading one data source is skipped and never
\* propagated.  load_csv_data and load_excel_data (both processors) never
\* raise; a file whose deciding read or cleaning fails gives an empty table, a
\* workbook that is missing or cannot be opened gives an empty dictionary, a
\* failing sheet is never in the result (and empties the whole result in the
\* root processor).  load_all_data on an existing directory never raises,
\* has no entry for a CSV file that failed and has the data of every other
\* file and sheet that loaded with rows.
C4_FailuresSkipped == C4_CsvSkipped /\ C4_ExcelSkipped /\ C4_OthersReturned

\* load_all_data met a file that failed and returned another one
C4_Witness ==
    /\ pc = "all_loaded"
    /\ impl = "utils.data_processor"
    /\ load_arg.exists
    /\ ~load_raised
    /\ \E f, g \in DOMAIN load_arg.csv :
          /\ C4_ReadFails(C4_Deciding(impl, load_arg.csv[f].file))
          /\ C4_Entries(load_arg.csv[f].name) = {}
          /\ C4_Entries(load_arg.csv[g].name) # {}
    /\ \E w \in DOMAIN load_arg.excel :
          /\ \E i \in DOMAIN load_arg.excel[w].sheets :
                C4_ReadFails(load_arg.excel[w].sheets[i].read)
          /\ \E k \in C4_Entries(excel_files[w]) : load_result[k].data.sheets # <<>>

C5_Tried == SelectSeq(csv_attempts, LAMBDA e : e \in EncodingSet)

C5_DecodeError(e) == load_arg.read[e].kind = "UnicodeDecodeError"

\* C5: load_csv_data of src/src/utils tries 'utf-8', 'utf-8-sig', 'cp1256',
\* 'iso-8859-1' in this order: the encodings tried are a non-empty prefix of
\* the list, every one before the last tried raised a decode error, the loop
\* stops short of the list's end only at an encoding that raised none, after
\* such an encoding nothing else is read and its table (cleaned) is the
\* result, and the last-resort read follows only four decode errors.
C5_EncodingsInOrder ==
    (pc = "csv_loaded" /\ impl = "utils.data_processor") =>
       LET n == Len(C5_Tried)
       IN  /\ n \in 1 .. Len(Encodings)
           /\ C5_Tried = SubSeq(Encodings, 1, n)
           /\ \A i \in 1 .. n - 1 : C5_DecodeError(Encodings[i])
           /\ n < Len(Encodings) => ~C5_DecodeError(Encodings[n])
           /\ ~C5_DecodeError(Encodings[n]) =>
                 /\ csv_attempts = C5_Tried
                 /\ ~C4_ReadFails(load_arg.read[Encodings[n]]) =>
                       load_result = clean_dataframe(load_arg.read[Encodings[n]].df)
           /\ csv_attempts # C5_Tried =>
                 /\ csv_attempts = Encodings \o <<LAST_RESORT>>
                 /\ \A i \in DOMAIN Encodings : C5_DecodeError(Encodings[i])

\* two decode errors, then cp1256 read the file and iso-8859-1, which would
\* have read it too, was not tried
C5_Witness ==
    /\ pc = "csv_loaded"
    /\ impl = "utils.data_processor"
    /\ csv_attempts = <<"utf-8", "utf-8-sig", "cp1256">>
    /\ load_arg.read["iso-8859-1"].kind = "ok"
    /\ load_result = clean_dataframe(DecodedTable("cp1256"))
    /\ load_result # DecodedTable("cp1256")

-----------------------------------------------------------------------------
(* The status normalisation as a state machine *)

MaxRows == 2

\* 'STATE', U+0627 U+0644 U+062D U+0627 U+0644 U+0629, 'Notes'
col_STATE == <<"S", "T", "A", "T", "E">>
col_Status_ar == <<"ALEF", "LAM", "HAH", "ALEF", "LAM", "TEH_MARBUTA">>
col_Notes == <<"N", "o", "t", "e", "s">>

\* the seven keys, a mapped value, a missing cell, and values that are a key
\* but for the case or a trailing blank
StatusValues ==
    DOMAIN status_mappings
      \cup {MAFTUH, NaN, <<"o", "p", "e", "n">>, <<"C", "l", "o", "s", "e", " ">>}

FewStatusValues == {key_Open, key_mughlaq_Close, <<"o", "p", "e", "n">>, NaN}

\* the tables with the given columns, up to MaxRows rows, cells from values
Tables(columns, values) ==
    {[columns |-> columns, rows |-> r] :
        r \in UNION {[1 .. n -> [Range(columns) -> values]] : n \in 0 .. MaxRows}}

StatusTables ==
    UNION {Tables(<<c>>, StatusValues) : c \in {col_Status, col_STATE, col_Status_ar, col_Notes}}
      \cup Tables(<<col_Status, col_Notes>>, FewStatusValues)
      \cup Tables(<<col_Notes, col_Status_ar>>, FewStatusValues)

StatusInit ==
    /\ LoadIdle
    /\ UnifyIdle
    /\ DashIdle
    /\ SessionIdle
    /\ AuxIdle
    /\ TableIdle
    /\ impl = "data_processor"
    /\ pc = "status"
    /\ df_arg \in StatusTables

\* df is changed in place and returned: df_arg keeps what it was at the call
StandardizeStatusValues ==
    /\ pc = "status"
    /\ df_call' = [op |-> "_standardize_status_values"]
    /\ df_result' = standardize_status_values(df_arg)
    /\ pc' = "standardized"
    /\ UNCHANGED <<impl, df_arg>>
    /\ UNCHANGED <<loadVars, dashVars, sessionVars, auxVars, processorVars>>

StatusNext == StandardizeStatusValues

SpecStatus == StatusInit /\ [][StatusNext]_vars

-----------------------------------------------------------------------------
(* Claims about the status normalisation (SpecStatus) *)

C8_IsStatusName(col) ==
    \/ Contains(Lower(col), <<"HAH", "ALEF", "LAM", "TEH_MARBUTA">>)
    \/ Contains(Lower(col), <<"s", "t", "a", "t", "u", "s">>)
    \/ Contains(Lower(col), <<"s", "t", "a", "t", "e">>)

C8_Opens == {key_maftuh_Open, key_Open}
C8_Closes == {key_mughlaq_Close, key_mughlaq_Closed, key_Closed_Close, key_Close, key_Closed}

C8_Expected(col, v) ==
    IF C8_IsStatusName(col) /\ v \in C8_Opens THEN MAFTUH
    ELSE IF C8_IsStatusName(col) /\ v \in C8_Closes THEN MUGHLAQ
    ELSE v

\* C8: _standardize_status_values keeps the columns and the number and order
\* of the rows; in a column whose lower-cased name contains one of the three
\* keywords a cell that is exactly one of the seven keys becomes the mapped
\* word, and every other cell of the table keeps its value.
C8_FixedDictionary ==
    pc = "standardized" =>
       /\ df_result.columns = df_arg.columns
       /\ Len(df_result.rows) = Len(df_arg.rows)
       /\ \A i \in DOMAIN df_arg.rows :
          \A k \in DOMAIN df_arg.columns :
             df_result.rows[i][df_arg.columns[k]]
               = C8_Expected(df_arg.columns[k], df_arg.rows[i][df_arg.columns[k]])

\* a key replaced in the status column and kept in the other column, next to
\* a row whose status is no key
C8_Witness ==
    /\ pc = "standardized"
    /\ df_arg.columns = <<col_Notes, col_Status_ar>>
    /\ Len(df_arg.rows) = 2
    /\ df_arg.rows[1] = (col_Notes :> key_Open) @@ (col_Status_ar :> key_mughlaq_Close)
    /\ df_result.rows[1] = (col_Notes :> key_Open) @@ (col_Status_ar :> MUGHLAQ)
    /\ df_arg.rows[2][col_Status_ar] = <<"o", "p", "e", "n">>
    /\ df_result.rows[2] = df_arg.rows[2]

-----------------------------------------------------------------------------
(* The column filters as a state machine *)

\* 'Department', 'Unit', U+0627 U+0644 U+062A U+0635 U+0646 U+064A U+0641
col_Department == <<"D", "e", "p", "a", "r", "t", "m", "e", "n", "t">>
col_Unit == <<"U", "n", "i", "t">>
col_Classification_ar == <<"ALEF", "LAM", "TEH", "SAD", "NOON", "YEH", "FEH">>

FilterColumns ==
    { <<col_Sector, col_Department>>, <<col_Department, col_Sector>>,
      <<col_Status_ar, col_Status>>, <<col_Notes, col_STATE>>,
      <<col_Activity, col_Classification_ar>>, <<col_Unit, col_Department>>,
      <<col_Notes>> }

FilterValues == {<<"A">>, <<"B">>, NaN}

FilterTables == UNION {Tables(c, FilterValues) : c \in FilterColumns}

\* what a multiselect hands over: some of the values
Selections == { {}, {<<"A">>}, {<<"A">>, <<"B">>}, {<<"B">>, NaN} }

FilterInit ==
    /\ LoadIdle
    /\ UnifyIdle
    /\ DashIdle
    /\ SessionIdle
    /\ AuxIdle
    /\ TableIdle
    /\ impl = "streamlit_app"
    /\ pc = "filter"
    /\ df_arg \in FilterTables

FilterFrame ==
    /\ pc' = "filtered"
    /\ UNCHANGED <<impl, df_arg>>
    /\ UNCHANGED <<loadVars, dashVars, sessionVars, auxVars, processorVars>>

ApplySectorFilter ==
    /\ pc = "filter"
    /\ \E sectors \in Selections :
          /\ df_call' = [op |-> "apply_sector_filter", selected |-> sectors]
          /\ df_result' = apply_sector_filter(df_arg, sectors)
    /\ FilterFrame

ApplyStatusFilter ==
    /\ pc = "filter"
    /\ \E statuses \in Selections :
          /\ df_call' = [op |-> "apply_status_filter", selected |-> statuses]
          /\ df_result' = apply_status_filter(df_arg, statuses)
    /\ FilterFrame

ApplyActivityFilter ==
    /\ pc = "filter"
    /\ \E activities \in Selections :
          /\ df_call' = [op |-> "apply_activity_filter", selected |-> activities]
          /\ df_result' = apply_activity_filter(df_arg, activities)
    /\ FilterFrame

ApplyDepartmentFilter ==
    /\ pc = "filter"
    /\ \E departments \in Selections :
          /\ df_call' = [op |-> "apply_department_filter", selected |-> departments]
          /\ df_result' = apply_department_filter(df_arg, departments)
    /\ FilterFrame

FilterNext ==
    \/ ApplySectorFilter
    \/ ApplyStatusFilter
    \/ ApplyActivityFilter
    \/ ApplyDepartmentFilter

SpecFilter == FilterInit /\ [][FilterNext]_vars

-----------------------------------------------------------------------------
(* Claims about the column filters (SpecFilter) *)

C9_Keywords(op) ==
    CASE op = "apply_sector_filter" ->
           {kw_department_ar, kw_sector_ar, kw_department, kw_sector}
      [] op = "apply_status_filter" -> {kw_status_ar, kw_status}
      [] op = "apply_activity_filter" ->
           {kw_activity_ar, kw_activity, kw_classification_ar}
      [] op = "apply_department_filter" ->
           {kw_department_ar, kw_unit_ar, kw_department, kw_unit}

\* positions of the columns whose lower-cased name contains a keyword of the role
C9_Matches == {k \in DOMAIN df_arg.columns :
                  \E kw \in C9_Keywords(df_call.op) : Contains(Lower(df_arg.columns[k]), kw)}

C9_Kept(k) ==
    SelectSeq(df_arg.rows, LAMBDA r : r[df_arg.columns[k]] \in df_call.selected)

\* C9: each of the four filters filters on the first column, in column order,
\* whose lower-cased name contains a keyword of its role: the result has the
\* table's columns and exactly the rows whose cell in that column is
\* selected; when no column name matches, the table comes back as it was.
C9_FirstMatch ==
    pc = "filtered" =>
       IF C9_Matches = {} THEN df_result = df_arg
       ELSE \E k \in C9_Matches :
               /\ \A j \in C9_Matches : k <= j
               /\ df_result.columns = df_arg.columns
               /\ df_result.rows = C9_Kept(k)

\* two columns match the sector keywords and filtering on the second would
\* keep other rows than filtering on the first
C9_Witness ==
    /\ pc = "filtered"
    /\ df_call.op = "apply_sector_filter"
    /\ C9_Matches = {1, 2}
    /\ df_result.rows = C9_Kept(1)
    /\ C9_Kept(1) # C9_Kept(2)
    /\ df_result # df_arg

\* no column matches the role and every row is returned
C9_WitnessNoMatch ==
    /\ pc = "filtered"
    /\ df_call.op = "apply_status_filter"
    /\ df_arg.columns = <<col_Notes, col_STATE>>
    /\ df_call.selected = {}
    /\ Len(df_arg.rows) = MaxRows
    /\ df_result = df_arg

-----------------------------------------------------------------------------
(* UltimateDashboard: loading the data, the notifications *)

NotificationTypes == {"success", "warning", "error", "info"}

\* AdvancedFeatures.add_notification on the list ns at time t
add_notification(ns, message, notification_type, t) ==
    Append(ns, [id |-> Len(ns), message |-> message, type |-> notification_type,
                timestamp |-> t, duration |-> 5, read |-> FALSE])

\* str.replace(old, new) for a non-empty old: every occurrence, left to right
RECURSIVE Replace(_, _, _)
Replace(s, old, new) ==
    IF Len(s) < Len(old) THEN s
    ELSE IF SubSeq(s, 1, Len(old)) = old
         THEN new \o Replace(SubSeq(s, Len(old) + 1, Len(s)), old, new)
         ELSE <<Head(s)>> \o Replace(Tail(s), old, new)

\* d[name] = data on a dict kept as the list of its items
DictAssign(d, name, data) ==
    IF \E i \in DOMAIN d : d[i].name = name
    THEN [i \in DOMAIN d |-> IF d[i].name = name THEN [name |-> name, data |-> data]
                             ELSE d[i]]
    ELSE Append(d, [name |-> name, data |-> data])

\* {**a, **b}
RECURSIVE DictMerge(_, _)
DictMerge(a, b) ==
    IF Len(b) = 0 THEN a
    ELSE DictMerge(DictAssign(a, Head(b).name, Head(b).data), Tail(b))

DOT_CSV == <<".", "c", "s", "v">>
POWER_BI_COPY ==
    <<"P", "o", "w", "e", "r", "_", "B", "I", "_", "C", "o", "p", "y", "_", "v",
      ".", "0", "2", "_", "S", "h", "e", "e", "t", "1", ".", "c", "s", "v">>

\* the steps of the try block outside the loop over the CSV files
StepsBeforeLoop == {"SafetyDataProcessor", "os.path.exists", "load_excel_data", "glob.glob"}
StepsAfterLoop == {"create_unified_dataset", "generate_kpi_data", "get_data_quality_report"}

\* the messages, by what they say
MSG_CSV_FAILED(csv_file) == [text |-> "csv file not loaded", file |-> csv_file]
MSG_LOADED == [text |-> "data loaded", file |-> <<>>]
MSG_LOAD_FAILED == [text |-> "data not loaded", file |-> <<>>]

\* for csv_file in csv_files: ...  A file f of the environment is [name,
\* file, raises]: raises says that loading it lets an exception out
RECURSIVE load_csv_files(_, _, _, _)
load_csv_files(csv_files, csv_data, ns, t) ==
    IF Len(csv_files) = 0 THEN [csv_data |-> csv_data, notifications |-> ns]
    ELSE LET f == Head(csv_files)
             data == load_csv_data(f.file).df
         IN  IF f.name = POWER_BI_COPY
             THEN load_csv_files(Tail(csv_files), csv_data, ns, t)
             ELSE IF f.raises
             THEN load_csv_files(Tail(csv_files), csv_data,
                                 add_notification(ns, MSG_CSV_FAILED(f.name), "warning", t), t)
             ELSE IF ~IsEmpty(data)
             THEN load_csv_files(Tail(csv_files),
                                 DictAssign(csv_data, Replace(f.name, DOT_CSV, <<>>),
                                            Frame(data)), ns, t)
             ELSE load_csv_files(Tail(csv_files), csv_data, ns, t)

\* excel_data: the sheets of 'sample-of-data.xlsx' by sheet name
excel_data_of(wb) ==
    IF wb.exists
    THEN LET sheets == load_excel_data(wb).sheets
         IN  [i \in DOMAIN sheets |-> [name |-> sheets[i].sheet_name,
                                       data |-> Frame(sheets[i].df)]]
    ELSE <<>>

\* all_data_sources = {**excel_data, **csv_data}
all_data_sources(env) ==
    DictMerge(excel_data_of(env.excel), load_csv_files(env.csv, <<>>, <<>>, 0).csv_data)

\* the try block on the environment env = [excel, csv, fault]: fault is the
\* step outside the loop that raises, "none" when none does
load_and_process_data_body(env, ns, ord, t) ==
    IF env.fault \in StepsBeforeLoop
    THEN [exc |-> TRUE, notifications |-> ns, value |-> <<>>]
    ELSE LET loop == load_csv_files(env.csv, <<>>, ns, t)
             unified == create_unified_dataset("data_processor", all_data_sources(env), ord)
         IN  IF env.fault \in StepsAfterLoop
             THEN [exc |-> TRUE, notifications |-> loop.notifications, value |-> <<>>]
             ELSE [exc |-> FALSE,
                   notifications |-> add_notification(loop.notifications, MSG_LOADED, "success", t),
                   value |-> [processor |-> <<"SafetyDataProcessor">>,
                              unified_data |-> unified,
                              kpi_data |-> generate_kpi_data(unified),
                              quality_report |-> get_data_quality_report(unified)]]

\* return None, {}, {}, {}
NoneTuple ==
    [processor |-> None, unified_data |-> <<>>, kpi_data |-> <<>>, quality_report |-> <<>>]

\* the function without its except clause
load_and_process_data_unhandled(env, ns, ord, t) ==
    LET b == load_and_process_data_body(env, ns, ord, t)
    IN  [escaped |-> b.exc, notifications |-> b.notifications, value |-> b.value]

load_and_process_data(env, ns, ord, t) ==
    LET b == load_and_process_data_body(env, ns, ord, t)
    IN  IF b.exc
        THEN [escaped |-> FALSE,
              notifications |-> add_notification(b.notifications, MSG_LOAD_FAILED, "error", t),
              value |-> NoneTuple]
        ELSE [escaped |-> FALSE, notifications |-> b.notifications, value |-> b.value]

-----------------------------------------------------------------------------
(* The dashboard session as a state machine *)

MaxNotifications == 2

\* 'Inspection.csv', U+0627 U+0644 U+062D U+0648 U+0627 U+062F U+062B '.csv', 'b.csv'
INSPECTION_CSV == <<"I", "n", "s", "p", "e", "c", "t", "i", "o", "n", ".", "c", "s", "v">>
INCIDENTS_CSV == <<"ALEF", "LAM", "HAH", "WAW", "ALEF", "DAL", "THEH", ".", "c", "s", "v">>

ReadableFile == CsvFile(AllCases("table"), ReadCase(LAST_RESORT, "Error"))

\* the CSV files there may be in the working directory
WorkingFiles ==
    { [name |-> INSPECTION_CSV, file |-> ReadableFile, raises |-> FALSE],
      [name |-> INCIDENTS_CSV, file |-> ReadableFile, raises |-> TRUE],
      [name |-> POWER_BI_COPY, file |-> ReadableFile, raises |-> TRUE],
      [name |-> CsvNames[2], file |-> CsvFile(AllCases("header_only"),
                                             ReadCase(LAST_RESORT, "Error")),
       raises |-> FALSE] }

\* glob.glob('*.csv'): some of the files, each once, in any order
GlobResults ==
    UNION { {f \in [1 .. n -> WorkingFiles] :
               \A i, j \in 1 .. n : i # j => f[i].name # f[j].name}
            : n \in 0 .. MaxFiles }

SampleWorkbooks ==
    { MissingWorkbook,
      [exists |-> TRUE, opens |-> TRUE, sheets |-> Sheets(<<"table", "header_only">>)] }

Environments ==
    [excel : SampleWorkbooks, csv : GlobResults,
     fault : {"none"} \cup StepsBeforeLoop \cup StepsAfterLoop]

Init ==
    /\ LoadIdle
    /\ UnifyIdle
    /\ TableIdle
    /\ df_arg = <<>>
    /\ DashIdle
    /\ SessionIdle
    /\ AuxIdle
    /\ impl = "streamlit_app"
    /\ pc = "started"

DashFrame ==
    UNCHANGED <<impl, loadVars, tableVars, processorVars, auxVars>>

\* a call of load_and_process_data: st.cache_data runs the body once and
\* hands the stored value to every later call
LoadAndProcessData ==
    /\ IF cache # <<>>
       THEN /\ returned' = cache[1]
            /\ escaped' = FALSE
            /\ pc' = "cached"
            /\ UNCHANGED <<notifications, cache, load_run>>
       ELSE \E env \in Environments :
               LET data == CategoryTables(all_data_sources(env))
                   listed == UNION {ListedColumns("data_processor", data[c]) :
                                       c \in DOMAIN data}
               IN  \E ord \in ColumnOrders(listed) :
                      LET r == load_and_process_data(env, notifications, ord, now)
                      IN  /\ notifications' = r.notifications
                          /\ returned' = r.value
                          /\ escaped' = r.escaped
                          /\ cache' = IF r.escaped THEN cache ELSE <<r.value>>
                          /\ load_run' = [env |-> env, before |-> notifications]
                          /\ pc' = "loaded"
    /\ UNCHANGED sessionVars
    /\ DashFrame

\* another handler of the dashboard reports something
AddNotification ==
    /\ Len(notifications) < MaxNotifications
    /\ \E t \in {"info", "success"} :
          notifications' = add_notification(notifications, [text |-> "other", file |-> <<>>], t, now)
    /\ pc' = "notified"
    /\ UNCHANGED <<cache, returned, escaped, load_run, sessionVars>>
    /\ DashFrame

\* show_notifications: the clear button
ClearNotifications ==
    /\ notifications # <<>>
    /\ notifications' = <<>>
    /\ pc' = "cleared"
    /\ UNCHANGED <<cache, returned, escaped, load_run, sessionVars>>
    /\ DashFrame

Next ==
    \/ LoadAndProcessData
    \/ AddNotification
    \/ ClearNotifications

Spec == Init /\ [][Next]_vars

-----------------------------------------------------------------------------
(* Claims about the dashboard session (Spec) *)

C10_Env == load_run.env

\* the steps of the last run that raised: the step outside the loop, and the
\* loads of the CSV files the loop came to
C10_StepRaised == C10_Env.fault # "none"

C10_LoopRan == C10_Env.fault \notin StepsBeforeLoop

C10_Tried == SelectSeq(C10_Env.csv, LAMBDA f : f.name # POWER_BI_COPY)

C10_CsvRaised == SelectSeq(C10_Tried, LAMBDA f : f.raises)

C10_Added == SubSeq(notifications, Len(load_run.before) + 1, Len(notifications))

C10_Last == notifications[Len(notifications)]

C10_NeverEscapes == pc \in {"loaded", "cached"} => ~escaped

C10_ErrorAndNoneTuple ==
    /\ returned = NoneTuple
    /\ Len(notifications) > Len(load_run.before)
    /\ SubSeq(notifications, 1, Len(load_run.before)) = load_run.before
    /\ C10_Last.type = "error"
    /\ C10_Last.id = Len(notifications) - 1
    /\ \A i \in 1 .. Len(C10_Added) - 1 : C10_Added[i].type # "error"

-----------------------------------------------------------------------------
(* UltimateDashboard: the session state and one run of the script *)

HOURS_KEPT == 24
HoursPerTick == 12

\* U+0627 U+0644 U+0631 U+0626 U+064A U+0633 U+064A U+0629
PAGE_HOME == <<"ALEF", "LAM", "REH", "YEH_WITH_HAMZA_ABOVE", "YEH", "SEEN", "YEH",
               "TEH_MARBUTA">>
\* U+0627 U+0644 U+0628 U+062F U+0621 ' ' U+0627 U+0644 U+0633 U+0631 U+064A U+0639
TOPIC_QUICK_START == <<"ALEF", "LAM", "BEH", "DAL", "HAMZA", " ", "ALEF", "LAM",
                       "SEEN", "REH", "YEH", "AIN">>

\* defaults = {...}, built at time t
defaults(t) ==
    [data_loaded |-> FALSE,
     current_page |-> PAGE_HOME,
     show_help |-> FALSE,
     show_search_results |-> FALSE,
     user_authenticated |-> TRUE,
     last_refresh |-> t,
     dashboard_config |-> [auto_refresh |-> FALSE, refresh_interval |-> 30,
                           show_animations |-> TRUE, compact_mode |-> FALSE]]

\* st.session_state[key] = value
SetKey(ss, key, value) ==
    [k \in DOMAIN ss \cup {key} |-> IF k = key THEN value ELSE ss[k]]

\* every default written, whatever the session holds
initialize_session_state_overwriting(ss, t) ==
    [k \in DOMAIN ss \cup DOMAIN defaults(t) |->
       IF k \in DOMAIN defaults(t) THEN defaults(t)[k] ELSE ss[k]]

\* for key, value in defaults.items(): if key not in st.session_state: ...
initialize_session_state(ss, t) ==
    [k \in DOMAIN ss \cup DOMAIN defaults(t) |->
       IF k \in DOMAIN ss THEN ss[k] ELSE defaults(t)[k]]

\* a cleanup that removes nothing
cleanup_old_notifications_keep_all(ns, t) == ns

\* n['timestamp'] > datetime.now() - timedelta(hours=24)
cleanup_old_notifications(ns, t) ==
    IF ns # <<>>
    THEN SelectSeq(ns, LAMBDA n :
                     n.timestamp * HoursPerTick > t * HoursPerTick - HOURS_KEPT)
    ELSE ns

\* a call through @st.cache_data: the body runs when nothing is stored
cache_miss(c, r) ==
    [value |-> r.value, notifications |-> r.notifications, escaped |-> r.escaped,
     cache |-> IF r.escaped THEN c ELSE <<r.value>>, ran |-> TRUE]

cached_load_and_process_data(c, env, ns, ord, t) ==
    IF c # <<>>
    THEN [value |-> c[1], notifications |-> ns, escaped |-> FALSE, cache |-> c,
          ran |-> FALSE]
    ELSE cache_miss(c, load_and_process_data(env, ns, ord, t))

\* st.session_state.processor = ...; ...; st.session_state.data_loaded = True
StoreData(ss, value) ==
    SetKey(SetKey(SetKey(SetKey(SetKey(ss,
        "processor", value.processor),
        "unified_data", value.unified_data),
        "kpi_data", value.kpi_data),
        "quality_report", value.quality_report),
        "data_loaded", TRUE)

\* the test with every run loading again
data_not_loaded_always(ss) == TRUE

\* run: if not st.session_state.data_loaded
data_not_loaded(ss) == ~ss["data_loaded"]

\* run, the loading: r is what the cached load_and_process_data gives
run_load(ss, ns, c, attempt, r, t) ==
    [session |-> IF ~attempt THEN ss
                 ELSE StoreData(ss, IF r.escaped THEN NoneTuple ELSE r.value),
     notifications |-> IF ~attempt THEN ns
                       ELSE IF r.escaped
                            THEN add_notification(r.notifications, MSG_LOAD_FAILED, "error", t)
                            ELSE r.notifications,
     cache |-> IF attempt THEN r.cache ELSE c,
     attempted |-> attempt,
     ran |-> attempt /\ r.ran,
     value |-> r.value]

\* run after the loading: the sidebar, the page, the end of the script
run_pages(loaded, click, t) ==
    LET ns1 == loaded.notifications
        ss1 == loaded.session
        cleared == click = "clear" /\ ns1 # <<>>
        ns2 == IF cleared THEN <<>> ELSE ns1
        ss2 == IF ~cleared /\ click = "help"
               THEN SetKey(SetKey(ss1, "show_help", TRUE), "help_topic", TOPIC_QUICK_START)
               ELSE ss1
        closed == ~cleared /\ ss2["show_help"] /\ click = "close_help"
        ss3 == IF closed THEN SetKey(ss2, "show_help", FALSE) ELSE ss2
        early == cleared \/ closed \/ ss3["show_help"]
        refreshed == ~early /\ click = "refresh"
        ss4 == IF refreshed THEN SetKey(ss3, "last_refresh", t) ELSE ss3
        finished == ~early /\ ~refreshed
    IN  [session |-> ss4,
         notifications |-> IF finished THEN cleanup_old_notifications(ns2, t) ELSE ns2,
         cache |-> loaded.cache,
         attempted |-> loaded.attempted,
         ran |-> loaded.ran,
         value |-> loaded.value,
         escaped |-> FALSE,
         end |-> IF cleared THEN "cleared" ELSE IF closed THEN "help_closed"
                 ELSE IF early THEN "help_shown" ELSE IF refreshed THEN "refreshed"
                 ELSE "finished"]

\* UltimateDashboard.run on the session ss, the notifications ns and the
\* cache c, at time t; click is the button the user pressed to start this run
\* of the script ("none": another widget).  end says where the run stopped:
\* at st.rerun() after a button, at the return under the help text, or at
\* its last statement.
run(ss, ns, c, env, ord, click, t) ==
    run_pages(run_load(ss, ns, c, data_not_loaded(ss),
                       cached_load_and_process_data(c, env, ns, ord, t), t),
              click, t)

-----------------------------------------------------------------------------
(* One browser session as a state machine *)

MaxClock == 2

\* the buttons of the sidebar and of the main page that start a run
Clicks == {"none", "clear", "help", "close_help", "refresh"}

\* what the first run of a session may find: a file that loads, a file
\* whose load raises, a step that raises
SessionEnvironments ==
    {env \in Environments :
        /\ env.excel = MissingWorkbook
        /\ Len(env.csv) = 1
        /\ env.csv[1].name \in {INSPECTION_CSV, INCIDENTS_CSV}
        /\ env.fault \in {"none", "generate_kpi_data"}}

\* the environment matters to a run that loads only
RunEnvironments(ss) ==
    IF "data_loaded" \in DOMAIN ss /\ ss["data_loaded"]
    THEN {CHOOSE env \in SessionEnvironments : TRUE}
    ELSE SessionEnvironments

SessionInit ==
    /\ LoadIdle
    /\ UnifyIdle
    /\ TableIdle
    /\ df_arg = <<>>
    /\ DashIdle
    /\ SessionIdle
    /\ AuxIdle
    /\ impl = "streamlit_app"
    /\ pc = "session"

\* what a run r of the script leaves behind
Ran(r, env) ==
    /\ session' = r.session
    /\ notifications' = r.notifications
    /\ cache' = r.cache
    /\ returned' = IF r.attempted THEN r.value ELSE returned
    /\ escaped' = IF r.attempted THEN r.escaped ELSE escaped
    /\ load_run' = IF r.ran THEN [env |-> env, before |-> notifications] ELSE load_run
    /\ last_run' = [attempted |-> r.attempted, end |-> r.end]

\* main(): UltimateDashboard() and run(), once per run of the script
Main ==
    /\ \E click \in Clicks, env \in RunEnvironments(session) :
          \E ord \in ColumnOrders(UNION {ListedColumns("data_processor", t) :
                                           t \in Range(CategoryTables(all_data_sources(env)))}) :
             Ran(run(initialize_session_state(session, now), notifications,
                     cache, env, ord, click, now), env)
    /\ pc' = "ran"
    /\ UNCHANGED now
    /\ DashFrame

\* UltimateDashboard(): __init__ calls initialize_session_state
InitializeSessionState ==
    /\ session' = initialize_session_state(session, now)
    /\ pc' = "initialized"
    /\ UNCHANGED <<now, last_run, dashVars>>
    /\ DashFrame

\* time passes
Tick ==
    /\ now < MaxClock
    /\ now' = now + 1
    /\ pc' = "tick"
    /\ UNCHANGED <<session, last_run, dashVars>>
    /\ DashFrame

\* a direct call of cleanup_old_notifications
CleanupOldNotifications ==
    /\ notifications' = cleanup_old_notifications(notifications, now)
    /\ pc' = "cleaned"
    /\ UNCHANGED <<cache, returned, escaped, load_run, sessionVars>>
    /\ DashFrame

\* the runs of the script in one session, as time passes
SessionNext ==
    \/ Main
    \/ InitializeSessionState
    \/ Tick

SpecSession == SessionInit /\ [][SessionNext]_vars

\* the notification list under direct calls of its three operations
NotifyNext ==
    \/ AddNotification
    \/ ClearNotifications
    \/ CleanupOldNotifications
    \/ Tick

SpecNotify == SessionInit /\ [][NotifyNext]_vars

-----------------------------------------------------------------------------
(* Claims about the session (SpecSession) *)

C11_Loaded(ss) == "data_loaded" \in DOMAIN ss /\ ss["data_loaded"]

C11_Stored(ss) ==
    <<ss["processor"], ss["unified_data"], ss["kpi_data"], ss["quality_report"]>>

C11_Empty == <<None, <<>>, <<>>, <<>> >>

\* after a run data_loaded is True; a run that called load_and_process_data
\* and got the failure tuple stored processor None and three empty dicts
C11_AfterRun ==
    pc = "ran" =>
       /\ C11_Loaded(session)
       /\ (last_run.attempted /\ returned = NoneTuple) => C11_Stored(session) = C11_Empty

\* once data_loaded is True it stays True, no run calls
\* load_and_process_data, and the stored data stay as they are
C11_Step ==
    C11_Loaded(session) =>
       /\ C11_Loaded(session')
       /\ pc' = "ran" => ~last_run'.attempted
       /\ C11_Stored(session') = C11_Stored(session)
       /\ cache' = cache
       /\ load_run' = load_run

\* C11: no retry of a failed load.  A run calls load_and_process_data only
\* while data_loaded is not True; after the first run data_loaded is True,
\* after a failed load with processor None and empty data; data_loaded never
\* becomes False again and no later run loads or changes the stored data.
C11_NoRetry == []C11_AfterRun /\ [][C11_Step]_vars

\* a later run of a session whose load failed: nothing was loaded again
C11_Witness ==
    /\ pc = "ran"
    /\ ~last_run.attempted
    /\ now > 0
    /\ C11_Loaded(session)
    /\ C11_Stored(session) = C11_Empty
    /\ load_run.env.fault # "none"

C13_Defaults == defaults(now')

\* what a call of initialize_session_state does to the session
C13_Step ==
    pc' = "initialized" =>
       /\ \A k \in DOMAIN session : k \in DOMAIN session' /\ session'[k] = session[k]
       /\ \A k \in DOMAIN session' \ DOMAIN session :
             k \in DOMAIN C13_Defaults /\ session'[k] = C13_Defaults[k]
       /\ DOMAIN C13_Defaults \subseteq DOMAIN session'

\* C13: initialize_session_state keeps every key the session has with its
\* value, adds exactly the absent default keys with their defaults, and a
\* second call right after the first changes nothing.
C13_OnlyAbsentKeys ==
    /\ [][C13_Step]_vars
    /\ [](pc = "initialized" => initialize_session_state(session, now) = session)

\* a call that found values written by earlier runs and left them
C13_Witness ==
    /\ pc = "initialized"
    /\ C11_Loaded(session)
    /\ session["show_help"]
    /\ session["last_refresh"] < now
    /\ session["data_loaded"] # defaults(now)["data_loaded"]
    /\ session["show_help"] # defaults(now)["show_help"]

-----------------------------------------------------------------------------
(* GeminiChatbot: classifying a query, answering it, the conversation *)

\* self.query_patterns, in the order of the dict literal
query_patterns ==
    <<[category |-> "total_incidents",
       patterns |-> <<<<"KAF", "MEEM", " ", "AIN", "DAL", "DAL", " ", "ALEF", "LAM", "HAH", "WAW", "ALEF", "DAL", "THEH">>,
                     <<"ALEF_WITH_HAMZA_BELOW", "JEEM", "MEEM", "ALEF", "LAM", "YEH", " ", "ALEF", "LAM", "HAH", "WAW", "ALEF", "DAL", "THEH">>,
                     <<"t", "o", "t", "a", "l", " ", "i", "n", "c", "i", "d", "e", "n", "t", "s">>>>],
      [category |-> "open_cases",
       patterns |-> <<<<"ALEF", "LAM", "HAH", "ALEF", "LAM", "ALEF", "TEH", " ", "ALEF", "LAM", "MEEM", "FEH", "TEH", "WAW", "HAH", "TEH_MARBUTA">>,
                     <<"ALEF", "LAM", "MEEM", "FEH", "TEH", "WAW", "HAH">>,
                     <<"o", "p", "e", "n", " ", "c", "a", "s", "e", "s">>>>],
      [category |-> "closed_cases",
       patterns |-> <<<<"ALEF", "LAM", "HAH", "ALEF", "LAM", "ALEF", "TEH", " ", "ALEF", "LAM", "MEEM", "GHAIN", "LAM", "QAF", "TEH_MARBUTA">>,
                     <<"ALEF", "LAM", "MEEM", "GHAIN", "LAM", "QAF">>,
                     <<"c", "l", "o", "s", "e", "d", " ", "c", "a", "s", "e", "s">>>>],
      [category |-> "department_performance",
       patterns |-> <<<<"ALEF_WITH_HAMZA_ABOVE", "DAL", "ALEF", "HAMZA", " ", "ALEF", "LAM", "QAF", "TAH", "ALEF", "AIN">>,
                     <<"ALEF", "LAM", "QAF", "TAH", "ALEF", "AIN", "ALEF", "TEH">>,
                     <<"d", "e", "p", "a", "r", "t", "m", "e", "n", "t", " ", "p", "e", "r", "f", "o", "r", "m", "a", "n", "c", "e">>>>],
      [category |-> "risk_assessment",
       patterns |-> <<<<"TEH", "QAF", "YEH", "YEH", "MEEM", " ", "ALEF", "LAM", "MEEM", "KHAH", "ALEF", "TAH", "REH">>,
                     <<"ALEF", "LAM", "MEEM", "KHAH", "ALEF", "TAH", "REH">>,
                     <<"r", "i", "s", "k", " ", "a", "s", "s", "e", "s", "s", "m", "e", "n", "t">>>>],
      [category |-> "compliance_rate",
       patterns |-> <<<<"MEEM", "AIN", "DAL", "LAM", " ", "ALEF", "LAM", "ALEF", "MEEM", "TEH", "THEH", "ALEF", "LAM">>,
                     <<"ALEF", "LAM", "ALEF", "MEEM", "TEH", "THEH", "ALEF", "LAM">>,
                     <<"c", "o", "m", "p", "l", "i", "a", "n", "c", "e", " ", "r", "a", "t", "e">>>>],
      [category |-> "trends",
       patterns |-> <<<<"ALEF", "LAM", "ALEF", "TEH", "JEEM", "ALEF", "HEH", "ALEF", "TEH">>,
                     <<"ALEF", "LAM", "TEH", "TAH", "WAW", "REH">>,
                     <<"t", "r", "e", "n", "d", "s">>,
                     <<"t", "r", "e", "n", "d">>>>],
      [category |-> "statistics",
       patterns |-> <<<<"ALEF_WITH_HAMZA_BELOW", "HAH", "SAD", "ALEF", "YEH_WITH_HAMZA_ABOVE", "YEH", "ALEF", "TEH">>,
                     <<"s", "t", "a", "t", "i", "s", "t", "i", "c", "s">>,
                     <<"s", "t", "a", "t", "s">>>>]>>

\* the keyword lists of the default classification, in the order of the
\* if/elif chain
default_keywords ==
    <<[category |-> "statistics",
       words |-> {<<"KAF", "MEEM">>,
                  <<"AIN", "DAL", "DAL">>,
                  <<"ALEF_WITH_HAMZA_BELOW", "JEEM", "MEEM", "ALEF", "LAM", "YEH">>,
                  <<"h", "o", "w", " ", "m", "a", "n", "y">>,
                  <<"t", "o", "t", "a", "l">>}],
      [category |-> "department_performance",
       words |-> {<<"ALEF_WITH_HAMZA_ABOVE", "FEH", "DAD", "LAM">>,
                  <<"ALEF_WITH_HAMZA_ABOVE", "SEEN", "WAW", "ALEF_WITH_HAMZA_ABOVE">>,
                  <<"b", "e", "s", "t">>,
                  <<"w", "o", "r", "s", "t">>}],
      [category |-> "trends",
       words |-> {<<"MEEM", "TEH", "ALEF_MAKSURA">>,
                  <<"w", "h", "e", "n">>,
                  <<"TEH", "ALEF", "REH", "YEH", "KHAH">>,
                  <<"d", "a", "t", "e">>}]>>

\* the if/elif chain after the loop
RECURSIVE default_classification(_, _)
default_classification(query_lower, i) ==
    IF i > Len(default_keywords) THEN "general"
    ELSE IF \E word \in default_keywords[i].words : Contains(query_lower, word)
         THEN default_keywords[i].category
         ELSE default_classification(query_lower, i + 1)

\* the loop over query_patterns.items(): the first category with a pattern
\* in the query returns
RECURSIVE classify_from(_, _)
classify_from(query_lower, i) ==
    IF i > Len(query_patterns) THEN default_classification(query_lower, 1)
    ELSE IF \E j \in DOMAIN query_patterns[i].patterns :
               Contains(query_lower, Lower(query_patterns[i].patterns[j]))
         THEN query_patterns[i].category
         ELSE classify_from(query_lower, i + 1)

\* the classification with the keyword lists consulted before the patterns
classify_query_keywords_first(query) ==
    LET d == default_classification(Lower(query), 1)
    IN  IF d # "general" THEN d ELSE classify_from(Lower(query), 1)

\* GeminiChatbot._classify_query
classify_query(query) == classify_from(Lower(query), 1)

WhiteSpace == {" ", "\t", "\n", "\r"}

\* str.strip()
RECURSIVE strip(_)
strip(s) ==
    IF s = <<>> THEN s
    ELSE IF Head(s) \in WhiteSpace THEN strip(Tail(s))
    ELSE IF s[Len(s)] \in WhiteSpace THEN strip(SubSeq(s, 1, Len(s) - 1))
    ELSE s

\* what the handler of a query type does: it raises, it answers with text
\* only, or it answers with a chart and a table
HandlerOutcomes == {"raises", "text", "chart"}

ERROR_TEXT == <<"error in processing the query">>

\* GeminiChatbot._generate_response
generate_response(query_type, user_query, outcome) ==
    IF outcome = "raises"
    THEN [text |-> ERROR_TEXT, chart |-> None, data |-> None]
    ELSE IF outcome = "text" \/ query_type = "general"
    THEN [text |-> <<"answer", query_type>>, chart |-> None, data |-> None]
    ELSE [text |-> <<"answer", query_type>>, chart |-> <<"fig">>, data |-> <<"table">>]

\* process_query with the response left as it was appended
process_query_unanswered(history, user_query, outcome, t) ==
    LET q == strip(user_query)
        query_type == classify_query(q)
    IN  [history |-> Append(history, [timestamp |-> t, user_query |-> q,
                                      response |-> None]),
         query_type |-> query_type,
         response |-> generate_response(query_type, q, outcome)]

\* GeminiChatbot.process_query
process_query(history, user_query, outcome, t) ==
    LET q == strip(user_query)
        h1 == Append(history, [timestamp |-> t, user_query |-> q, response |-> None])
        query_type == classify_query(q)
        response == generate_response(query_type, q, outcome)
    IN  [history |-> [h1 EXCEPT ![Len(h1)].response = response],
         query_type |-> query_type,
         response |-> response]

\* the two appends to st.session_state.messages around process_query
user_message(prompt) == [role |-> "user", content |-> prompt]

assistant_message(response) ==
    [role |-> "assistant", content |-> response.text,
     chart |-> response.chart, data |-> response.data]

\* create_chatbot_interface: the quick question buttons
quick_questions ==
    <<<<"KAF", "MEEM", " ", "AIN", "DAL", "DAL", " ", "ALEF", "LAM", "HAH", "WAW", "ALEF", "DAL", "THEH", " ", "ALEF", "LAM", "ALEF_WITH_HAMZA_BELOW", "JEEM", "MEEM", "ALEF", "LAM", "YEH", "QUESTION_MARK">>,
      <<"MEEM", "ALEF", " ", "HEH", "YEH", " ", "ALEF", "LAM", "HAH", "ALEF", "LAM", "ALEF", "TEH", " ", "ALEF", "LAM", "MEEM", "FEH", "TEH", "WAW", "HAH", "TEH_MARBUTA", "QUESTION_MARK">>,
      <<"ALEF_WITH_HAMZA_ABOVE", "ZAH", "HEH", "REH", " ", "ALEF_WITH_HAMZA_ABOVE", "DAL", "ALEF", "HAMZA", " ", "ALEF", "LAM", "QAF", "TAH", "ALEF", "AIN", "ALEF", "TEH">>,
      <<"MEEM", "ALEF", " ", "HEH", "WAW", " ", "MEEM", "AIN", "DAL", "LAM", " ", "ALEF", "LAM", "ALEF", "MEEM", "TEH", "THEH", "ALEF", "LAM", "QUESTION_MARK">>,
      <<"ALEF_WITH_HAMZA_ABOVE", "ZAH", "HEH", "REH", " ", "ALEF", "LAM", "ALEF", "TEH", "JEEM", "ALEF", "HEH", "ALEF", "TEH", " ", "ALEF", "LAM", "ZAIN", "MEEM", "NOON", "YEH", "TEH_MARBUTA">>>>

-----------------------------------------------------------------------------
(* The chatbot page as a state machine *)

MaxHistory == 2

\* what a user types into st.chat_input
Prompts ==
    {<<"s", "t", "a", "t", "s", " ", "o", "f", " ", "c", "l", "o", "s", "e", "d", " ", "c", "a", "s", "e", "s">>,
     <<" ", "h", "o", "w", " ", "m", "a", "n", "y", " ", "\n">>,
     <<"h", "e", "l", "l", "o">>}

ChatInit ==
    /\ LoadIdle
    /\ UnifyIdle
    /\ TableIdle
    /\ df_arg = <<>>
    /\ DashIdle
    /\ SessionIdle
    /\ AuxIdle
    /\ impl = "streamlit_app"
    /\ pc = "chat"

ChatFrame ==
    UNCHANGED <<impl, loadVars, tableVars, processorVars, dashVars, sessionVars,
                themeVars, export>>

\* the two paths through create_chatbot_interface that ask the chatbot
Ask(op, prompt, outcome) ==
    LET r == process_query(conversation_history, prompt, outcome, now)
    IN  /\ Len(conversation_history) < MaxHistory
        /\ conversation_history' = r.history
        /\ messages' = messages \o <<user_message(prompt), assistant_message(r.response)>>
        /\ chat' = [prompt |-> prompt, query_type |-> r.query_type,
                    response |-> r.response, outcome |-> outcome]
        /\ pc' = op
        /\ ChatFrame

\* a prompt typed into st.chat_input
ChatInput ==
    \E prompt \in Prompts, outcome \in HandlerOutcomes :
        Ask("chat_input", prompt, outcome)

\* a quick question button
QuickQuestion ==
    \E i \in DOMAIN quick_questions, outcome \in HandlerOutcomes :
        Ask("quick_question", quick_questions[i], outcome)

\* the clear button without the call of clear_conversation
ClearConversation_MessagesOnly ==
    /\ messages' = <<>>
    /\ pc' = "conversation_cleared"
    /\ UNCHANGED <<conversation_history, chat>>
    /\ ChatFrame

\* the clear button: both lists are emptied, then st.rerun()
ClearConversation ==
    /\ messages' = <<>>
    /\ conversation_history' = <<>>
    /\ pc' = "conversation_cleared"
    /\ UNCHANGED chat
    /\ ChatFrame

ChatNext ==
    \/ ChatInput
    \/ QuickQuestion
    \/ ClearConversation

SpecChat == ChatInit /\ [][ChatNext]_vars

-----------------------------------------------------------------------------
(* Claims about the chatbot page (SpecChat) *)

C18_Asked == {"chat_input", "quick_question"}

\* what a process_query call does to the history, given what it returned
C18_Call ==
    pc' \in C18_Asked =>
       /\ Len(conversation_history') = Len(conversation_history) + 1
       /\ SubSeq(conversation_history', 1, Len(conversation_history)) = conversation_history
       /\ LET entry == conversation_history'[Len(conversation_history')]
          IN  /\ entry.user_query = strip(chat'.prompt)
              /\ DOMAIN entry.response = {"text", "chart", "data"}
              /\ entry.response = chat'.response
              /\ chat'.outcome = "raises" =>
                    /\ entry.response.text = ERROR_TEXT
                    /\ entry.response.chart = None
                    /\ entry.response.data = None

\* C18: conversation_history holds one entry per process_query call since
\* the last clear, in call order, with the stripped query; the entry's
\* response is the value the call returned and is never None, also when the
\* generation raised (then the error text with chart and data None).
C18_OneEntryPerCall ==
    /\ [][C18_Call]_vars
    /\ [][pc' = "conversation_cleared" => conversation_history' = <<>>]_vars
    /\ [](\A i \in DOMAIN conversation_history :
             DOMAIN conversation_history[i].response = {"text", "chart", "data"})

\* two calls: the first one's generation raised, the second had blanks
\* around the query
C18_Witness ==
    /\ pc \in C18_Asked
    /\ Len(conversation_history) = 2
    /\ conversation_history[1].response.text = ERROR_TEXT
    /\ conversation_history[2].user_query # chat.prompt
    /\ conversation_history[2].user_query = strip(chat.prompt)
    /\ conversation_history[2].response.chart # None

\* C19: st.session_state.messages has twice as many entries as
\* conversation_history, a user message then an assistant message for each
\* entry; after the clear button both are empty.
C19_TwoMessagesPerEntry ==
    /\ Len(messages) = 2 * Len(conversation_history)
    /\ \A i \in DOMAIN messages :
          messages[i].role = IF i % 2 = 1 THEN "user" ELSE "assistant"
    /\ pc = "conversation_cleared" => messages = <<>> /\ conversation_history = <<>>

\* a conversation of two questions, and a page cleared after a question
C19_Witness ==
    /\ pc = "quick_question"
    /\ Len(conversation_history) = 2
    /\ Len(messages) = 4
    /\ messages[4].content = ERROR_TEXT

C19_WitnessCleared ==
    /\ pc = "conversation_cleared"
    /\ chat # <<>>
    /\ messages = <<>>

-----------------------------------------------------------------------------
(* _classify_query called on its own *)

MaxPhrases == 2

Phrases ==
    {<<"T", "o", "t", "a", "l", " ", "I", "n", "c", "i", "d", "e", "n", "t", "s">>,
     <<"o", "p", "e", "n", " ", "c", "a", "s", "e", "s">>,
     <<"t", "r", "e", "n", "d">>,
     <<"s", "t", "a", "t", "s">>,
     <<"t", "o", "t", "a", "l", " ", "c", "l", "o", "s", "e", "d", " ", "c", "a", "s", "e", "s">>,
     <<"h", "o", "w", " ", "m", "a", "n", "y">>,
     <<"w", "o", "r", "s", "t">>,
     <<"w", "h", "e", "n">>,
     <<"h", "e", "l", "l", "o">>,
     <<"ALEF", "LAM", "MEEM", "KHAH", "ALEF", "TAH", "REH">>,
     <<"ALEF", "LAM", "ALEF", "MEEM", "TEH", "THEH", "ALEF", "LAM">>,
     <<"KAF", "MEEM">>,
     <<"TEH", "ALEF", "REH", "YEH", "KHAH">>}

RECURSIVE QueriesOf(_)
QueriesOf(n) ==
    IF n = 0 THEN {<<>>}
    ELSE LET shorter == QueriesOf(n - 1)
         IN  shorter \cup {q \o <<" ">> \o p : q \in shorter, p \in Phrases}

\* the phrases, up to MaxPhrases of them, each after a blank
Queries == QueriesOf(MaxPhrases)

ClassifyInit ==
    /\ LoadIdle
    /\ UnifyIdle
    /\ TableIdle
    /\ df_arg = <<>>
    /\ DashIdle
    /\ SessionIdle
    /\ conversation_history = <<>>
    /\ messages = <<>>
    /\ chat \in [prompt : Queries]
    /\ current_theme = "light"
    /\ theme_preferences = <<>>
    /\ theme_out = <<>>
    /\ export = <<>>
    /\ impl = "gemini_chatbot"
    /\ pc = "query"

ClassifyQuery ==
    /\ pc = "query"
    /\ chat' = [prompt |-> chat.prompt, query_type |-> classify_query(chat.prompt)]
    /\ pc' = "classified"
    /\ UNCHANGED <<conversation_history, messages>>
    /\ ChatFrame

ClassifyNext == ClassifyQuery

SpecClassify == ClassifyInit /\ [][ClassifyNext]_vars

-----------------------------------------------------------------------------
(* Claims about the classification (SpecClassify) *)

\* the positions in query_patterns of the categories with a pattern in q
C12_Matching(q) ==
    {i \in DOMAIN query_patterns :
        \E j \in DOMAIN query_patterns[i].patterns :
            Contains(q, query_patterns[i].patterns[j])}

C12_Keywords(q, i) == \E w \in default_keywords[i].words : Contains(q, w)

C12_Order ==
    <<"total_incidents", "open_cases", "closed_cases", "department_performance",
      "risk_assessment", "compliance_rate", "trends", "statistics">>

C12_Expected(q) ==
    LET matching == C12_Matching(q)
    IN  IF matching # {}
        THEN C12_Order[CHOOSE i \in matching : \A k \in matching : i <= k]
        ELSE IF C12_Keywords(q, 1) THEN "statistics"
        ELSE IF C12_Keywords(q, 2) THEN "department_performance"
        ELSE IF C12_Keywords(q, 3) THEN "trends"
        ELSE "general"

\* C12: _classify_query returns the first category, in the declaration order
\* of query_patterns, one of whose patterns is a substring of the lower-cased
\* query; only when no pattern matches it consults the keyword groups, in the
\* order statistics, department_performance, trends, and otherwise returns
\* 'general'.  The class is a function of the query text alone.
C12_FirstCategory ==
    /\ \A i \in DOMAIN query_patterns : query_patterns[i].category = C12_Order[i]
    /\ pc = "classified" => chat.query_type = C12_Expected(Lower(chat.prompt))

\* a query with patterns of two categories, the later category's pattern
\* standing first in the text, and a keyword of the default lists as well
C12_Witness ==
    /\ pc = "classified"
    /\ C12_Matching(Lower(chat.prompt)) = {3, 8}
    /\ C12_Keywords(Lower(chat.prompt), 1)
    /\ chat.prompt[2] = "s"
    /\ chat.query_type = "closed_cases"

-----------------------------------------------------------------------------
(* Choosing the department, status and activity columns of a table:
   DashboardComponents._get_department_performance, _prepare_heatmap_data,
   GeminiChatbot._generate_insights *)

\* for col in df.columns:
\*     if any(keyword in col.lower() for keyword in first): first_col = col
\*     elif any(keyword in col.lower() for keyword in second): second_col = col
RECURSIVE column_loop(_, _, _, _, _)
column_loop(columns, i, first, second, found) ==
    IF i > Len(columns) THEN found
    ELSE LET col == columns[i]
             next == IF ContainsAny(Lower(col), first) THEN [found EXCEPT ![1] = col]
                     ELSE IF ContainsAny(Lower(col), second) THEN [found EXCEPT ![2] = col]
                     ELSE found
         IN  column_loop(columns, i + 1, first, second, next)

dept_keywords == {kw_department_ar, kw_sector_ar, kw_department}

\* dept_col and status_col, None where the loop found no column
dept_and_status_col(df) ==
    column_loop(df.columns, 1, dept_keywords, {kw_status_ar, kw_status}, <<None, None>>)

\* dept_col and activity_col
dept_and_activity_col(df) ==
    column_loop(df.columns, 1, dept_keywords,
                {kw_activity_ar, kw_activity, kw_classification_ar}, <<None, None>>)

\* the rows with a value in both columns (groupby, value_counts and crosstab
\* drop the missing ones)
BothPresent(df, a, b) ==
    {i \in DOMAIN df.rows : df.rows[i][a] # NaN /\ df.rows[i][b] # NaN}

\* DashboardComponents._get_department_performance on one table: for each
\* department <<closed * 100, total>>, the compliance rate as a fraction
get_department_performance(df) ==
    LET cols == dept_and_status_col(df)
        dept_col == cols[1]
        status_col == cols[2]
        rows == BothPresent(df, dept_col, status_col)
    IN  IF IsEmpty(df) \/ dept_col = None \/ status_col = None THEN <<>>
        ELSE [dept \in {df.rows[i][dept_col] : i \in rows} |->
                LET of_dept == {i \in rows : df.rows[i][dept_col] = dept}
                IN  <<100 * Cardinality({i \in of_dept : df.rows[i][status_col] = MUGHLAQ}),
                      Cardinality(of_dept)>>]

\* DashboardComponents._prepare_heatmap_data on one table: activity_counts
prepare_heatmap_data(df) ==
    LET cols == dept_and_activity_col(df)
        dept_col == cols[1]
        activity_col == cols[2]
        rows == BothPresent(df, dept_col, activity_col)
    IN  IF IsEmpty(df) \/ dept_col = None \/ activity_col = None THEN <<>>
        ELSE [key \in {df.rows[i][dept_col] : i \in rows}
                      \X {df.rows[i][activity_col] : i \in rows} |->
                Cardinality({i \in rows : /\ df.rows[i][dept_col] = key[1]
                                          /\ df.rows[i][activity_col] = key[2]})]

\* GeminiChatbot._generate_insights, the department insight on one table:
\* the department value_counts puts first and its count, one result for each
\* order of equal counts; no insight gives the set of <<>> alone
generate_insights(df) ==
    LET cols == dept_and_status_col(df)
        dept_col == cols[1]
        status_col == cols[2]
        dept_counts == ValueCounts(df, dept_col)
    IN  IF \/ IsEmpty(df) \/ dept_col = None \/ status_col = None
           \/ DOMAIN dept_counts = {}
        THEN {<<>>}
        ELSE {<<d, dept_counts[d]>> : d \in {x \in DOMAIN dept_counts :
                    \A y \in DOMAIN dept_counts : dept_counts[y] <= dept_counts[x]}}

-----------------------------------------------------------------------------
(* The three functions as a state machine *)

col_Sector_ar == <<"ALEF", "LAM", "QAF", "TAH", "ALEF", "AIN">>
col_Department_Status ==
    <<"D", "e", "p", "a", "r", "t", "m", "e", "n", "t", " ", "S", "t", "a", "t", "u", "s">>

SniffTables ==
    UNION ({Tables(c, {<<"A">>, MUGHLAQ}) :
               c \in { <<col_Department, col_Sector_ar, col_Status>>,
                       <<col_Status, col_Department, col_Status_ar>>,
                       <<col_Activity, col_Classification_ar, col_Department>>,
                       <<col_Status, col_Department_Status, col_Activity>> }}
           \cup
           {Tables(c, {<<"A">>, MUGHLAQ, NaN}) :
               c \in { <<col_Department, col_Status>>,
                       <<col_Activity, col_Sector_ar>>,
                       <<col_Notes, col_Status>> }})

SniffInit ==
    /\ LoadIdle
    /\ UnifyIdle
    /\ DashIdle
    /\ SessionIdle
    /\ AuxIdle
    /\ TableIdle
    /\ impl = "dashboard_components"
    /\ pc = "table"
    /\ df_arg \in SniffTables

SniffFrame ==
    /\ pc' = "sniffed"
    /\ UNCHANGED <<impl, df_arg>>
    /\ UNCHANGED <<loadVars, dashVars, sessionVars, auxVars, processorVars>>

GetDepartmentPerformance ==
    /\ pc = "table"
    /\ df_call' = [op |-> "_get_department_performance",
                   roles |-> <<dept_keywords, {kw_status_ar, kw_status}>>]
    /\ df_result' = [cols |-> dept_and_status_col(df_arg),
                     value |-> get_department_performance(df_arg)]
    /\ SniffFrame

PrepareHeatmapData ==
    /\ pc = "table"
    /\ df_call' = [op |-> "_prepare_heatmap_data",
                   roles |-> <<dept_keywords,
                               {kw_activity_ar, kw_activity, kw_classification_ar}>>]
    /\ df_result' = [cols |-> dept_and_activity_col(df_arg),
                     value |-> prepare_heatmap_data(df_arg)]
    /\ SniffFrame

GenerateInsights ==
    /\ pc = "table"
    /\ df_call' = [op |-> "_generate_insights",
                   roles |-> <<dept_keywords, {kw_status_ar, kw_status}>>]
    /\ \E insight \in generate_insights(df_arg) :
          df_result' = [cols |-> dept_and_status_col(df_arg), value |-> insight]
    /\ SniffFrame

SniffNext ==
    \/ GetDepartmentPerformance
    \/ PrepareHeatmapData
    \/ GenerateInsights

SpecSniff == SniffInit /\ [][SniffNext]_vars

-----------------------------------------------------------------------------
(* Claims about the column choice (SpecSniff) *)

\* the first column of df_arg whose lower-cased name holds one of the
\* keywords, None if there is none
C14_First(kws) ==
    LET matching == KeywordColumns(df_arg, kws)
    IN  IF matching = <<>> THEN None ELSE matching[1]

\* C14: in _get_department_performance, _prepare_heatmap_data and
\* _generate_insights the column of each role is the first column, in column
\* order, whose lower-cased name contains one of the role's keywords.
C14_FirstColumn ==
    pc = "sniffed" =>
       /\ df_result.cols[1] = C14_First(df_call.roles[1])
       /\ df_result.cols[2] = C14_First(df_call.roles[2])

\* what the loops do: the last column of the first role, and for the second
\* role the last column with its keyword and none of the first role's
C14_Last(kws, excluded) ==
    LET matching == SelectSeq(df_arg.columns,
                              LAMBDA col : /\ ContainsAny(Lower(col), kws)
                                           /\ ~ContainsAny(Lower(col), excluded))
    IN  IF matching = <<>> THEN None ELSE matching[Len(matching)]

C14_LastColumn ==
    pc = "sniffed" =>
       /\ df_result.cols[1] = C14_Last(df_call.roles[1], {})
       /\ df_result.cols[2] = C14_Last(df_call.roles[2], df_call.roles[1])

-----------------------------------------------------------------------------
(* AdvancedFeatures: the export centre *)

\* the option of the data type selectbox that stands for every table
ALL_DATA == "all"

FORMAT_EXCEL == <<"E", "x", "c", "e", "l", " ", "(", ".", "x", "l", "s", "x", ")">>
FORMAT_CSV == <<"C", "S", "V", " ", "(", ".", "c", "s", "v", ")">>
FORMAT_JSON == <<"J", "S", "O", "N", " ", "(", ".", "j", "s", "o", "n", ")">>

\* the options of the export format selectbox
ExportFormats == {FORMAT_EXCEL, FORMAT_CSV, FORMAT_JSON}

FORMAT_PDF == <<"P", "D", "F">>
FORMAT_WORD == <<"W", "o", "r", "d">>
FORMAT_POWERPOINT == <<"P", "o", "w", "e", "r", "P", "o", "i", "n", "t">>

\* the options of the report format selectbox
ReportFormats == {FORMAT_PDF, FORMAT_WORD, FORMAT_POWERPOINT}

MSG_EXPORTED == [text |-> "data exported", file |-> <<>>]
MSG_EXPORT_FAILED == [text |-> "data not exported", file |-> <<>>]
MSG_REPORTED == [text |-> "report created", file |-> <<>>]
MSG_REPORT_FAILED == [text |-> "report not created", file |-> <<>>]

\* the try block of export_data: the st.download_button it reached (None if
\* none), whether it warned, whether it raised.  tables are the keys of
\* unified_data; writes says whether writing the file raises
export_data_body(tables, data_type, format_type, writes) ==
    LET known == data_type = ALL_DATA \/ \E i \in DOMAIN tables : tables[i] = data_type
        data_to_export == IF data_type = ALL_DATA THEN tables ELSE <<data_type>>
        file == [download |-> None, warned |-> FALSE, raised |-> ~writes]
    IN  IF ~known THEN [download |-> None, warned |-> FALSE, raised |-> TRUE]
        ELSE IF Contains(format_type, <<"E", "x", "c", "e", "l">>)
        THEN [file EXCEPT !.download = IF writes THEN "xlsx" ELSE None]
        ELSE IF Contains(format_type, <<"C", "S", "V">>)
        THEN IF Len(data_to_export) = 1
             THEN [file EXCEPT !.download = IF writes THEN "csv" ELSE None]
             ELSE [download |-> None, warned |-> TRUE, raised |-> FALSE]
        ELSE IF Contains(format_type, <<"J", "S", "O", "N">>)
        THEN [file EXCEPT !.download = IF writes THEN "json" ELSE None]
        ELSE [download |-> None, warned |-> FALSE, raised |-> FALSE]

\* AdvancedFeatures.export_data
export_data(ns, tables, data_type, format_type, writes, t) ==
    LET r == export_data_body(tables, data_type, format_type, writes)
    IN  [download |-> r.download, warned |-> r.warned, raised |-> r.raised,
         notifications |-> IF r.raised
                           THEN add_notification(ns, MSG_EXPORT_FAILED, "error", t)
                           ELSE add_notification(ns, MSG_EXPORTED, "success", t)]

\* AdvancedFeatures.generate_report
generate_report(ns, format_type, writes, t) ==
    LET pdf == format_type = FORMAT_PDF
        raised == pdf /\ ~writes
    IN  [download |-> IF pdf /\ writes THEN "pdf" ELSE None,
         warned |-> FALSE, raised |-> raised,
         notifications |-> IF raised
                           THEN add_notification(ns, MSG_REPORT_FAILED, "error", t)
                           ELSE add_notification(ns, MSG_REPORTED, "success", t)]

-----------------------------------------------------------------------------
(* The export centre as a state machine *)

\* the keys of unified_data
ExportTables == {<<>>, <<"incidents">>, <<"incidents", "risk_assessments">>}

ExportInit ==
    /\ LoadIdle
    /\ UnifyIdle
    /\ TableIdle
    /\ df_arg = <<>>
    /\ DashIdle
    /\ SessionIdle
    /\ AuxIdle
    /\ impl = "streamlit_app"
    /\ pc = "export_center"

ExportFrame ==
    UNCHANGED <<impl, loadVars, tableVars, processorVars, sessionVars, chatVars,
                themeVars, cache, returned, escaped, load_run>>

ExportData ==
    /\ Len(notifications) < MaxNotifications
    /\ \E tables \in ExportTables, data_type \in {ALL_DATA, "incidents", "risk_assessments"},
          format_type \in ExportFormats, writes \in BOOLEAN :
          LET r == export_data(notifications, tables, data_type, format_type, writes, now)
          IN  /\ notifications' = r.notifications
              /\ export' = [op |-> "export_data", tables |-> tables,
                            data_type |-> data_type, format_type |-> format_type,
                            download |-> r.download, warned |-> r.warned,
                            raised |-> r.raised]
    /\ pc' = "exported"
    /\ ExportFrame

GenerateReport ==
    /\ Len(notifications) < MaxNotifications
    /\ \E format_type \in ReportFormats, writes \in BOOLEAN :
          LET r == generate_report(notifications, format_type, writes, now)
          IN  /\ notifications' = r.notifications
              /\ export' = [op |-> "generate_report", tables |-> <<>>,
                            data_type |-> ALL_DATA, format_type |-> format_type,
                            download |-> r.download, warned |-> r.warned,
                            raised |-> r.raised]
    /\ pc' = "reported"
    /\ ExportFrame

ExportNext ==
    \/ ExportData
    \/ GenerateReport

SpecExport == ExportInit /\ [][ExportNext]_vars

-----------------------------------------------------------------------------
(* Claims about the export centre (SpecExport) *)

C15_Called == pc \in {"exported", "reported"}

C15_Appended == notifications[Len(notifications)]

\* C15: export_data and generate_report append a 'success' notification only
\* when the call offered a download; a call that produced no file (CSV
\* export of several tables, a report format other than PDF, an exception)
\* appends no 'success' notification.
C15_SuccessOnlyWithDownload ==
    C15_Called => (C15_Appended.type = "success" => export.download # None)

\* what the code guarantees: a call that raised appends 'error' and every
\* other call 'success'
C15_SuccessUnlessRaised ==
    C15_Called => (C15_Appended.type = IF export.raised THEN "error" ELSE "success")

-----------------------------------------------------------------------------
(* Claims about the notification list (SpecNotify) *)

\* C16: the ids of the notifications in the list are pairwise distinct after
\* any sequence of add_notification, cleanup_old_notifications and clear.
C16_DistinctIds ==
    \A i, j \in DOMAIN notifications :
        notifications[i].id = notifications[j].id => i = j

\* what add_notification guarantees: the new id is the length of the list
\* before the call
C16_IdIsLength ==
    [][pc' = "notified" =>
          notifications'[Len(notifications')].id = Len(notifications)]_vars

\* later than 24 hours before t
C17_Recent(n, t) == n.timestamp * HoursPerTick > t * HoursPerTick - HOURS_KEPT

\* C17: cleanup_old_notifications, called at time t, keeps exactly the
\* notifications with a timestamp later than t - 24 hours, in their order,
\* and adds nothing.
C17_KeepsRecent ==
    [][pc' = "cleaned" =>
          notifications' = SelectSeq(notifications, LAMBDA n : C17_Recent(n, now))]_vars

\* a cleanup that dropped the older notification and kept the newer one
C17_Witness ==
    /\ pc = "cleaned"
    /\ Len(notifications) = 1
    /\ notifications[1].id = 1
    /\ C17_Recent(notifications[1], now)

-----------------------------------------------------------------------------
(* ThemeManager *)

\* self.themes: the four theme configurations by name
themes ==
    [theme \in {"light", "dark", "blue", "green"} |-> [config_of |-> theme]]

\* set_theme without the test of the name
set_theme_unchecked(current, theme_name) == theme_name

\* ThemeManager.set_theme: the new value of current_theme
set_theme(current, theme_name) ==
    IF theme_name \in DOMAIN themes THEN theme_name ELSE current

\* ThemeManager.get_current_theme: self.themes[current_theme], a KeyError
\* for a name that is no key
get_current_theme(current) ==
    IF current \in DOMAIN themes
    THEN [raised |-> FALSE, value |-> themes[current]]
    ELSE [raised |-> TRUE, value |-> None]

\* user_id or 'default'
user_or_default(user_id) ==
    IF user_id = None \/ user_id = <<>>
    THEN <<"d", "e", "f", "a", "u", "l", "t">>
    ELSE user_id

\* ThemeManager.save_theme_preferences: the stored preferences
save_theme_preferences(current, user_id, t) ==
    [theme |-> current, timestamp |-> t, user_id |-> user_or_default(user_id)]

\* load_theme_preferences without the test of the user id
load_theme_preferences_any_user(current, preferences, user_id) ==
    IF preferences # <<>> THEN set_theme(current, preferences.theme) ELSE current

\* ThemeManager.load_theme_preferences: the new value of current_theme
load_theme_preferences(current, preferences, user_id) ==
    IF preferences # <<>> /\ preferences.user_id = user_or_default(user_id)
    THEN set_theme(current, preferences.theme)
    ELSE current

-----------------------------------------------------------------------------
(* The theme manager as a state machine *)

\* names a caller may hand to set_theme
ThemeNames == DOMAIN themes \cup {"purple", ""}

UserIds == {None, <<>>, <<"u", "1">>}

ThemeInit ==
    /\ LoadIdle
    /\ UnifyIdle
    /\ TableIdle
    /\ df_arg = <<>>
    /\ DashIdle
    /\ SessionIdle
    /\ AuxIdle
    /\ impl = "streamlit_app"
    /\ pc = "theme_manager"

ThemeFrame ==
    UNCHANGED <<impl, loadVars, tableVars, processorVars, dashVars, session, last_run,
                chatVars, export>>

SetTheme ==
    /\ \E theme_name \in ThemeNames :
          /\ current_theme' = set_theme(current_theme, theme_name)
          /\ theme_out' = [op |-> "set_theme", arg |-> theme_name]
    /\ pc' = "set_theme"
    /\ UNCHANGED <<theme_preferences, now>>
    /\ ThemeFrame

\* the selectbox offers the keys of themes; a new choice goes to set_theme,
\* which reruns the script, otherwise the preview reads the current theme
CreateThemeSelector ==
    /\ \E selected_theme \in DOMAIN themes :
          IF selected_theme # current_theme
          THEN /\ current_theme' = set_theme(current_theme, selected_theme)
               /\ theme_out' = [op |-> "create_theme_selector", arg |-> selected_theme]
          ELSE /\ current_theme' = current_theme
               /\ theme_out' = [op |-> "create_theme_selector", arg |-> selected_theme,
                                preview |-> get_current_theme(current_theme)]
    /\ pc' = "theme_selector"
    /\ UNCHANGED <<theme_preferences, now>>
    /\ ThemeFrame

GetCurrentTheme ==
    /\ theme_out' = [op |-> "get_current_theme", arg |-> current_theme,
                     result |-> get_current_theme(current_theme)]
    /\ pc' = "get_current_theme"
    /\ UNCHANGED <<current_theme, theme_preferences, now>>
    /\ ThemeFrame

SaveThemePreferences ==
    /\ \E user_id \in UserIds :
          /\ theme_preferences' = save_theme_preferences(current_theme, user_id, now)
          /\ theme_out' = [op |-> "save_theme_preferences", arg |-> user_id]
    /\ pc' = "preferences_saved"
    /\ UNCHANGED <<current_theme, now>>
    /\ ThemeFrame

LoadThemePreferences ==
    /\ \E user_id \in UserIds :
          /\ current_theme' = load_theme_preferences(current_theme, theme_preferences, user_id)
          /\ theme_out' = [op |-> "load_theme_preferences", arg |-> user_id,
                           before |-> current_theme]
    /\ pc' = "preferences_loaded"
    /\ UNCHANGED <<theme_preferences, now>>
    /\ ThemeFrame

\* time passes
ThemeTick ==
    /\ now < MaxClock
    /\ now' = now + 1
    /\ pc' = "tick"
    /\ UNCHANGED themeVars
    /\ ThemeFrame

ThemeNext ==
    \/ SetTheme
    \/ CreateThemeSelector
    \/ GetCurrentTheme
    \/ SaveThemePreferences
    \/ LoadThemePreferences
    \/ ThemeTick

SpecTheme == ThemeInit /\ [][ThemeNext]_vars

-----------------------------------------------------------------------------
(* Claims about the theme (SpecTheme) *)

C20_Names == {"light", "dark", "blue", "green"}

\* current_theme changes only in set_theme, called directly, by the selector
\* or by load_theme_preferences, and only to a key of themes
C20_Change ==
    current_theme' # current_theme =>
       /\ current_theme' \in DOMAIN themes
       /\ pc' \in {"set_theme", "theme_selector", "preferences_loaded"}
       /\ pc' = "set_theme" => current_theme' = theme_out'.arg
       /\ pc' = "preferences_loaded" => current_theme' = theme_preferences.theme

\* C20: current_theme is always one of 'light', 'dark', 'blue', 'green': it
\* starts as 'light', set_theme changes it only to a key of themes,
\* load_theme_preferences goes through set_theme; so get_current_theme
\* never fails.
C20_ThemeIsKnown ==
    /\ DOMAIN themes = C20_Names
    /\ current_theme = "light"
    /\ [](current_theme \in C20_Names)
    /\ [](pc = "get_current_theme" => ~theme_out.result.raised)
    /\ [][C20_Change]_vars

\* set_theme was handed a name that is no theme and left the theme, which
\* was not the initial one, as it was
C20_Witness ==
    /\ pc = "set_theme"
    /\ theme_out.arg \notin DOMAIN themes
    /\ current_theme = "blue"

\* load_theme_preferences brought back a saved theme
C20_WitnessLoaded ==
    /\ pc = "preferences_loaded"
    /\ theme_preferences # <<>>
    /\ theme_preferences.timestamp < now
    /\ current_theme = theme_preferences.theme
    /\ current_theme = "dark"

C21_User(user_id) ==
    IF user_id \in {None, <<>>} THEN <<"d", "e", "f", "a", "u", "l", "t">> ELSE user_id

\* a save stores the theme that is current and the user; nothing else
\* writes the preferences
C21_Save ==
    /\ pc' = "preferences_saved" =>
          /\ theme_preferences'.theme = current_theme
          /\ theme_preferences'.user_id = C21_User(theme_out'.arg)
    /\ theme_preferences' # theme_preferences => pc' = "preferences_saved"

\* a load for the user of the saved preferences sets the saved theme, any
\* other load leaves the theme
C21_Load ==
    pc' = "preferences_loaded" =>
       current_theme' = IF /\ theme_preferences # <<>>
                           /\ theme_preferences.user_id = C21_User(theme_out'.arg)
                        THEN theme_preferences.theme
                        ELSE current_theme

\* C21: theme preferences round-trip.  After save_theme_preferences(u) a
\* later load_theme_preferences(u) sets current_theme to the theme that was
\* current at the save, whatever the theme became in between (None counts
\* as 'default'); a load with another user id, or with nothing saved, leaves
\* current_theme unchanged.
C21_RoundTrip == [][C21_Save /\ C21_Load]_vars

\* a load for the default user at a later time that brought back the saved
\* theme after the theme had been changed
C21_Witness ==
    /\ pc = "preferences_loaded"
    /\ theme_out.arg = None
    /\ theme_preferences # <<>>
    /\ theme_preferences.timestamp < now
    /\ theme_out.before # theme_preferences.theme
    /\ current_theme = theme_preferences.theme

-----------------------------------------------------------------------------
(* UltimateDashboard.apply_filters *)

\* a cell of a datetime64 column: a day, at midnight
Timestamp(day) == <<"<Timestamp>", day>>

Timestamps == {Timestamp(d) : d \in {"d000", "d350", "d395", "d400"}}

\* the day as a number of days
DayOf(v) ==
    CASE v[2] = "d000" -> 0 [] v[2] = "d350" -> 350
      [] v[2] = "d395" -> 395 [] v[2] = "d400" -> 400

\* [col for col in df.columns if df[col].dtype == 'datetime64[ns]']
date_cols(df) ==
    SelectSeq(df.columns,
              LAMBDA col : /\ \A i \in DOMAIN df.rows : df.rows[i][col] \in Timestamps \cup {NaN}
                           /\ \E i \in DOMAIN df.rows : df.rows[i][col] \in Timestamps)

\* df[mask]: the rows that pass, in their order
Where(df, Keep(_)) == [columns |-> df.columns, rows |-> SelectSeq(df.rows, Keep)]

\* df[df[col] >= cutoff]: a missing date compares False
NotBefore(df, col, cutoff) ==
    Where(df, LAMBDA r : r[col] # NaN /\ DayOf(r[col]) >= cutoff)

\* for col in date_cols: df = df[df[col] >= cutoff]
RECURSIVE NotBeforeAll(_, _, _)
NotBeforeAll(df, cols, cutoff) ==
    IF cols = <<>> THEN df
    ELSE NotBeforeAll(NotBefore(df, Head(cols), cutoff), Tail(cols), cutoff)

\* for col in date_cols: df = df[(date >= start_date) & (date <= end_date)]
RECURSIVE BetweenAll(_, _, _, _)
BetweenAll(df, cols, start_date, end_date) ==
    IF cols = <<>> THEN df
    ELSE BetweenAll(Where(df, LAMBDA r : /\ r[Head(cols)] # NaN
                                         /\ DayOf(r[Head(cols)]) >= start_date
                                         /\ DayOf(r[Head(cols)]) <= end_date),
                    Tail(cols), start_date, end_date)

\* df[df[col].str.contains('a|b', na=False)]
StrContains(df, col, alternatives) ==
    Where(df, LAMBDA r : r[col] # NaN /\ ContainsAny(r[col], alternatives))

\* U+0645 U+062E U+0627 U+0637 U+0631
kw_risk_ar == <<"MEEM", "KHAH", "ALEF", "TAH", "REH">>
kw_risk == <<"r", "i", "s", "k">>
\* U+0639 U+0627 U+0644 U+064A
AALI == <<"AIN", "ALEF", "LAM", "YEH">>
High == <<"H", "i", "g", "h">>

\* the quick filters the function knows
QUICK_LAST_30_DAYS == "last 30 days"
QUICK_OPEN_CASES == "open cases"
QUICK_HIGH_RISK == "high risk"

\* UltimateDashboard.apply_quick_filter; today is datetime.now()
apply_quick_filter(df, quick_filter, today) ==
    IF quick_filter = QUICK_LAST_30_DAYS
    THEN IF date_cols(df) # <<>> THEN NotBefore(df, date_cols(df)[1], today - 30) ELSE df
    ELSE IF quick_filter = QUICK_OPEN_CASES
    THEN LET status_cols == KeywordColumns(df, {kw_status_ar, kw_status})
         IN  IF status_cols # <<>> THEN StrContains(df, status_cols[1], {MAFTUH, key_Open})
             ELSE df
    ELSE IF quick_filter = QUICK_HIGH_RISK
    THEN LET risk_cols == KeywordColumns(df, {kw_risk_ar, kw_risk, kw_classification_ar})
         IN  IF risk_cols # <<>> THEN StrContains(df, risk_cols[1], {AALI, High}) ELSE df
    ELSE df

\* UltimateDashboard.apply_date_filter
apply_date_filter(df, date_range) ==
    IF Len(date_range) = 2
    THEN BetweenAll(df, date_cols(df), date_range[1], date_range[2])
    ELSE df

\* the date presets the function knows
PRESET_TODAY == "today"
PRESET_LAST_7_DAYS == "last 7 days"
PRESET_LAST_30_DAYS == "last 30 days"
PRESET_LAST_3_MONTHS == "last 3 months"
PRESET_LAST_YEAR == "last year"

\* UltimateDashboard.apply_date_preset_filter
apply_date_preset_filter(df, preset, today) ==
    IF date_cols(df) = <<>> THEN df
    ELSE IF preset = PRESET_TODAY THEN NotBeforeAll(df, date_cols(df), today)
    ELSE IF preset = PRESET_LAST_7_DAYS THEN NotBeforeAll(df, date_cols(df), today - 7)
    ELSE IF preset = PRESET_LAST_30_DAYS THEN NotBeforeAll(df, date_cols(df), today - 30)
    ELSE IF preset = PRESET_LAST_3_MONTHS THEN NotBeforeAll(df, date_cols(df), today - 90)
    ELSE IF preset = PRESET_LAST_YEAR THEN NotBeforeAll(df, date_cols(df), today - 365)
    ELSE df

\* 'key' in filters and filters[key], for a list of selected values
Given(filters, key) == key \in DOMAIN filters /\ filters[key] # {}

filter_quick(df, filters, today) ==
    IF "quick_filter" \in DOMAIN filters
    THEN apply_quick_filter(df, filters["quick_filter"], today) ELSE df

filter_dates(df, filters, today) ==
    IF "date_range" \in DOMAIN filters /\ filters["date_range"] # <<>>
    THEN apply_date_filter(df, filters["date_range"])
    ELSE IF "date_preset" \in DOMAIN filters
    THEN apply_date_preset_filter(df, filters["date_preset"], today)
    ELSE df

filter_sectors(df, filters) ==
    IF Given(filters, "sectors") THEN apply_sector_filter(df, filters["sectors"]) ELSE df

filter_statuses(df, filters) ==
    IF Given(filters, "statuses") THEN apply_status_filter(df, filters["statuses"]) ELSE df

filter_activities(df, filters) ==
    IF Given(filters, "activities") THEN apply_activity_filter(df, filters["activities"])
    ELSE df

filter_departments(df, filters) ==
    IF Given(filters, "departments")
    THEN apply_department_filter(df, filters["departments"]) ELSE df

\* the body of the loop of apply_filters for one table
filtered_df(df, filters, today) ==
    IF IsEmpty(df) THEN df
    ELSE filter_departments(
           filter_activities(
             filter_statuses(
               filter_sectors(
                 filter_dates(filter_quick(df, filters, today), filters, today),
                 filters),
               filters),
             filters),
           filters)

\* apply_filters with the empty tables left out of the result
apply_filters_without_empty(unified, filters, today) ==
    IF DOMAIN filters = {} \/ DOMAIN unified = {} THEN unified
    ELSE [data_type \in {k \in DOMAIN unified : ~IsEmpty(unified[k])} |->
             filtered_df(unified[data_type], filters, today)]

\* UltimateDashboard.apply_filters
apply_filters(unified, filters, today) ==
    IF DOMAIN filters = {} \/ DOMAIN unified = {} THEN unified
    ELSE [data_type \in DOMAIN unified |-> filtered_df(unified[data_type], filters, today)]

-----------------------------------------------------------------------------
(* apply_filters as a state machine *)

col_Date == <<"D", "a", "t", "e">>
col_Risk == <<"R", "i", "s", "k">>

IncidentRow(date, status, sector) ==
    (col_Date :> date) @@ (col_Status :> status) @@ (col_Sector :> sector)

IncidentRows ==
    {IncidentRow(Timestamp("d400"), MAFTUH, <<"A">>),
     IncidentRow(Timestamp("d350"), key_Open, <<"B">>),
     IncidentRow(NaN, MUGHLAQ, <<"A">>),
     IncidentRow(Timestamp("d000"), NaN, NaN)}

IncidentTables ==
    {[columns |-> <<col_Date, col_Status, col_Sector>>, rows |-> r] :
        r \in UNION {[1 .. n -> IncidentRows] : n \in 0 .. MaxRows}}

RiskTable ==
    [columns |-> <<col_Risk, col_Activity>>,
     rows |-> <<(col_Risk :> High) @@ (col_Activity :> <<"X">>),
                (col_Risk :> <<"L", "o", "w">>) @@ (col_Activity :> <<"Y">>)>>]

\* unified_data: the incidents alone, or with a second table
UnifiedInputs ==
    {[k \in {"incidents"} |-> t] : t \in IncidentTables}
    \cup {[k \in {"incidents", "risk_assessments"} |->
              IF k = "incidents" THEN t ELSE u] :
            t \in IncidentTables, u \in {RiskTable, EmptyDataFrame}}
    \cup {<<>>}

FilterKeys ==
    {"quick_filter", "date_range", "date_preset", "sectors", "statuses",
     "activities", "departments"}

\* values the sidebar gives the keys
FilterOptions(key) ==
    CASE key = "quick_filter" ->
            {QUICK_LAST_30_DAYS, QUICK_OPEN_CASES, QUICK_HIGH_RISK, "all"}
      [] key = "date_range" -> {<<>>, <<350>>, <<350, 400>>, <<395, 400>>}
      [] key = "date_preset" ->
            {PRESET_TODAY, PRESET_LAST_7_DAYS, PRESET_LAST_YEAR, "all time"}
      [] key = "sectors" -> {{}, {<<"A">>}}
      [] key = "statuses" -> {{MAFTUH}}
      [] key = "activities" -> {{<<"X">>}}
      [] key = "departments" -> {{<<"B">>}}

\* the filter dictionaries with no key, one key, two keys
FilterDicts ==
    {<<>>}
    \cup UNION {{[k \in {key} |-> v] : v \in FilterOptions(key)} : key \in FilterKeys}
    \cup UNION {{[k \in {p[1], p[2]} |-> IF k = p[1] THEN v ELSE w] :
                    v \in FilterOptions(p[1]), w \in FilterOptions(p[2])} :
                p \in {q \in FilterKeys \X FilterKeys : q[1] # q[2]}}

ApplyInit ==
    /\ LoadIdle
    /\ UnifyIdle
    /\ DashIdle
    /\ SessionIdle
    /\ AuxIdle
    /\ TableIdle
    /\ impl = "streamlit_app"
    /\ pc = "unfiltered"
    /\ df_arg \in UnifiedInputs

ApplyFilters ==
    /\ pc = "unfiltered"
    /\ \E filters \in FilterDicts, today \in {400} :
          /\ df_call' = [op |-> "apply_filters", filters |-> filters, today |-> today]
          /\ df_result' = apply_filters(df_arg, filters, today)
    /\ pc' = "filters_applied"
    /\ UNCHANGED <<impl, df_arg>>
    /\ UNCHANGED <<loadVars, dashVars, sessionVars, auxVars, processorVars>>

ApplyNext == ApplyFilters

SpecApply == ApplyInit /\ [][ApplyNext]_vars

-----------------------------------------------------------------------------
(* Claims about apply_filters (SpecApply) *)

\* s can be had from t by leaving elements out
RECURSIVE C22_SubSeq(_, _)
C22_SubSeq(s, t) ==
    IF s = <<>> THEN TRUE
    ELSE IF t = <<>> THEN FALSE
    ELSE IF Head(s) = Head(t) THEN C22_SubSeq(Tail(s), Tail(t))
    ELSE C22_SubSeq(s, Tail(t))

\* C22: apply_filters only removes rows.  For every filter dictionary the
\* result has exactly the keys of unified_data, every filtered table has the
\* columns of its input table and rows that are rows of the input table,
\* unchanged and in their order; the input is as it was; with an empty
\* filter dictionary the result is the input.
C22_OnlyRemovesRows ==
    /\ [](pc = "filters_applied" =>
             /\ DOMAIN df_result = DOMAIN df_arg
             /\ \A k \in DOMAIN df_arg :
                   /\ df_result[k].columns = df_arg[k].columns
                   /\ C22_SubSeq(df_result[k].rows, df_arg[k].rows)
             /\ DOMAIN df_call.filters = {} => df_result = df_arg)
    /\ [][pc' = "filters_applied" => df_arg' = df_arg]_vars

\* a call with two filters that removed a row of one table, kept another row
\* of it and left the second table whole
C22_Witness ==
    /\ pc = "filters_applied"
    /\ DOMAIN df_arg = {"incidents", "risk_assessments"}
    /\ DOMAIN df_call.filters = {"quick_filter", "date_preset"}
    /\ Len(df_arg["incidents"].rows) = 2
    /\ Len(df_result["incidents"].rows) = 1
    /\ df_result["incidents"].rows[1] = df_arg["incidents"].rows[2]
    /\ df_result["risk_assessments"] = RiskTable

-----------------------------------------------------------------------------
(* AdvancedFilters: filter presets *)

\* datetime.date(year, month, day)
Date(year, month, day) == <<"<date>", year, month, day>>

IsDate(v) == Len(v) > 0 /\ v[1] = "<date>"

\* str(n).zfill(width)
RECURSIVE ZFill(_, _)
ZFill(s, width) == IF Len(s) >= width THEN s ELSE ZFill(<<"0">> \o s, width)

\* date.isoformat(), and date.strftime('%Y-%m-%d'): 'YYYY-MM-DD'
isoformat(d) ==
    ZFill(IntStr(d[2]), Len(<<"Y", "Y", "Y", "Y">>)) \o <<"-">>
    \o ZFill(IntStr(d[3]), Len(<<"M", "M">>)) \o <<"-">>
    \o ZFill(IntStr(d[4]), Len(<<"D", "D">>))

\* bool(value) of the value of a filter key
Truthy(key, value) ==
    IF key \in {"sectors", "status"} THEN value # {} ELSE value # <<>>

\* st.session_state.get('filter_presets', {})
get_saved_filter_presets(ss) ==
    IF "filter_presets" \in DOMAIN ss THEN ss["filter_presets"] ELSE <<>>

\* the loop of _save_filter_preset: a date_range becomes a pair of strings
serializable_filters(filters) ==
    [key \in DOMAIN filters |->
        IF key = "date_range" /\ Truthy(key, filters[key])
        THEN <<isoformat(filters[key][1]), isoformat(filters[key][2])>>
        ELSE filters[key]]

\* AdvancedFilters._save_filter_preset: the session state after the call
save_filter_preset(ss, name, filters) ==
    SetKey(ss, "filter_presets",
           SetKey(get_saved_filter_presets(ss), name, serializable_filters(filters)))

\* AdvancedFilters.create_filter_presets_section: the filters returned when
\* the select box, shown when there are presets, gives selected_preset
create_filter_presets_section(ss, selected_preset) ==
    LET saved_presets == get_saved_filter_presets(ss)
    IN  IF DOMAIN saved_presets # {} /\ selected_preset # ""
        THEN DictUpdate(<<>>, saved_presets[selected_preset])
        ELSE <<>>

\* AdvancedFilters._display_active_filters_summary: the count shown, or the
\* AttributeError of value[0].strftime on a value that is no date
display_active_filters_summary(filters) ==
    IF DOMAIN filters = {} THEN [raised |-> FALSE, shown |-> FALSE, active_count |-> 0]
    ELSE IF /\ "date_range" \in DOMAIN filters
            /\ Truthy("date_range", filters["date_range"])
            /\ \E i \in {1, 2} : ~IsDate(filters["date_range"][i])
    THEN [raised |-> TRUE, shown |-> FALSE, active_count |-> 0]
    ELSE [raised |-> FALSE, shown |-> TRUE,
          active_count |-> Cardinality({key \in DOMAIN filters : Truthy(key, filters[key])})]

-----------------------------------------------------------------------------
(* The presets as a state machine *)

PresetNames == {"weekly", "audit"}

\* filter dictionaries as create_complete_filter_system builds them
PresetFilters ==
    {<<>>,
     [sectors |-> {<<"A">>}],
     [search_query |-> <<"x">>],
     [date_range |-> <<Date(2024, 1, 5), Date(2024, 12, 31)>>],
     [date_range |-> <<Date(2024, 1, 5), Date(2024, 12, 31)>>,
      sectors |-> {<<"A">>, <<"B">>}, priority |-> <<"h", "i", "g", "h">>]}

\* df_arg keeps, for each name, the filters it was last saved with
PresetInit ==
    /\ LoadIdle
    /\ UnifyIdle
    /\ DashIdle
    /\ SessionIdle
    /\ AuxIdle
    /\ TableIdle
    /\ impl = "advanced_filters"
    /\ pc = "sidebar"
    /\ df_arg = <<>>

PresetFrame ==
    UNCHANGED <<impl, loadVars, processorVars, auxVars, now, last_run,
                notifications, cache, returned, load_run>>

SaveFilterPreset ==
    /\ \E name \in PresetNames, filters \in PresetFilters :
          /\ session' = save_filter_preset(session, name, filters)
          /\ df_arg' = SetKey(df_arg, name, filters)
          /\ df_call' = [op |-> "_save_filter_preset", name |-> name]
    /\ df_result' = <<>>
    /\ pc' = "saved"
    /\ UNCHANGED escaped
    /\ PresetFrame

CreateFilterPresetsSection ==
    /\ \E selected_preset \in {""} \cup DOMAIN get_saved_filter_presets(session) :
          /\ df_result' = create_filter_presets_section(session, selected_preset)
          /\ df_call' = [op |-> "create_filter_presets_section", name |-> selected_preset]
    /\ pc' = "loaded"
    /\ UNCHANGED <<session, df_arg, escaped>>
    /\ PresetFrame

\* the summary of the filters just loaded
DisplayActiveFiltersSummary ==
    /\ pc = "loaded"
    /\ escaped' = display_active_filters_summary(df_result).raised
    /\ pc' = "summary"
    /\ UNCHANGED <<session, tableVars>>
    /\ PresetFrame

PresetNext ==
    \/ SaveFilterPreset
    \/ CreateFilterPresetsSection
    \/ DisplayActiveFiltersSummary

SpecPreset == PresetInit /\ [][PresetNext]_vars

-----------------------------------------------------------------------------
(* Claims about the presets (SpecPreset) *)

\* a preset was loaded through the section
C23_Loaded ==
    /\ pc' = "loaded"
    /\ df_call'.name # ""

\* C23: a filter preset round-trips.  A preset saved under a name and later
\* loaded through create_filter_presets_section gives every filter key the
\* value it had when it was saved, the summary of the loaded filters does
\* not raise, and saving under a name leaves the other presets as they were.
C23_RoundTrip ==
    /\ [][C23_Loaded => df_result' = df_arg[df_call'.name]]_vars
    /\ [](pc = "summary" => ~escaped)
    /\ [][pc' = "saved" =>
            \A other \in DOMAIN get_saved_filter_presets(session) \ {df_call'.name} :
                /\ other \in DOMAIN get_saved_filter_presets(session')
                /\ get_saved_filter_presets(session')[other]
                       = get_saved_filter_presets(session)[other]]_vars

\* saving under a name replaces that preset only
C23_ReplacesOnlyThatPreset ==
    [][pc' = "saved" =>
         /\ DOMAIN get_saved_filter_presets(session')
               = DOMAIN get_saved_filter_presets(session) \cup {df_call'.name}
         /\ \A other \in DOMAIN get_saved_filter_presets(session) \ {df_call'.name} :
               get_saved_filter_presets(session')[other]
                   = get_saved_filter_presets(session)[other]]_vars

\* the loaded date_range is the pair of ISO strings, and the summary raised
C23_StringsLoaded ==
    /\ pc = "summary"
    /\ escaped
    /\ df_result["date_range"] = << <<"2", "0", "2", "4", "-", "0", "1", "-", "0", "5">>,
                                    <<"2", "0", "2", "4", "-", "1", "2", "-", "3", "1">> >>
    /\ df_arg[df_call.name]["date_range"] = <<Date(2024, 1, 5), Date(2024, 12, 31)>>

\* presets without a date_range come back as they were saved
C23_OtherKeysRoundTrip ==
    [][C23_Loaded /\ "date_range" \notin DOMAIN df_arg[df_call'.name]
         => df_result' = df_arg[df_call'.name]]_vars

-----------------------------------------------------------------------------
(* DataProcessor._handle_duplicate_columns *)

\* cols[cols.duplicated()].unique(): the names met again, each once, in the
\* order of their first repetition
duplicated_names(cols) ==
    LET again == {i \in DOMAIN cols : \E j \in 1 .. i - 1 : cols[j] = cols[i]}
        first_again == {i \in again : \A j \in 1 .. i - 1 : j \in again => cols[j] # cols[i]}
    IN  [k \in 1 .. Cardinality(first_again) |->
            cols[CHOOSE i \in first_again :
                    Cardinality({j \in first_again : j < i}) = k - 1]]

\* the body of the loop: the i-th occurrence of dup becomes dup_i, the
\* first one stays
rename_duplicates(cols, dup) ==
    [p \in DOMAIN cols |->
        LET i == Cardinality({j \in 1 .. p - 1 : cols[j] = dup})
        IN  IF cols[p] = dup /\ i # 0 THEN dup \o <<"_">> \o IntStr(i) ELSE cols[p]]

\* the loop over the duplicated names, which are taken before it starts
RECURSIVE rename_each(_, _)
rename_each(cols, dups) ==
    IF dups = <<>> THEN cols
    ELSE rename_each(rename_duplicates(cols, Head(dups)), Tail(dups))

\* DataProcessor._handle_duplicate_columns: df.columns after the call
handle_duplicate_columns(cols) == rename_each(cols, duplicated_names(cols))

MaxColumns == 3

\* names as clean_column_names takes them from the first row
ColumnNames ==
    {<<"a">>, <<"b">>, <<"a", "_", "1">>, <<"a", "_", "2">>}

ColumnLists == UNION {[1 .. n -> ColumnNames] : n \in 0 .. MaxColumns}

\* df_arg and df_result are the column names of the table, the cells stay
DuplicatesInit ==
    /\ LoadIdle
    /\ UnifyIdle
    /\ DashIdle
    /\ SessionIdle
    /\ AuxIdle
    /\ TableIdle
    /\ impl = "app"
    /\ pc = "cleaned_names"
    /\ df_arg \in ColumnLists

HandleDuplicateColumns ==
    /\ pc = "cleaned_names"
    /\ df_call' = [op |-> "_handle_duplicate_columns"]
    /\ df_result' = handle_duplicate_columns(df_arg)
    /\ pc' = "renamed"
    /\ UNCHANGED <<impl, df_arg>>
    /\ UNCHANGED <<loadVars, dashVars, sessionVars, auxVars, processorVars>>

DuplicatesNext == HandleDuplicateColumns

SpecDuplicates == DuplicatesInit /\ [][DuplicatesNext]_vars

-----------------------------------------------------------------------------
(* Claims about _handle_duplicate_columns (SpecDuplicates) *)

C24_Once(cols, i) == \A j \in DOMAIN cols : j # i => cols[j] # cols[i]

\* C24: _handle_duplicate_columns handles duplicate column names.  For every
\* list of column names the names after the call are pairwise distinct,
\* there are as many columns as before, in their order, and a name that
\* occurred only once is left as it was.
C24_DistinctNames ==
    pc = "renamed" =>
        /\ \A i, j \in DOMAIN df_result : i # j => df_result[i] # df_result[j]
        /\ Len(df_result) = Len(df_arg)
        /\ \A i \in DOMAIN df_arg : C24_Once(df_arg, i) => df_result[i] = df_arg[i]

\* the number of columns stays, a name that occurred once and the first
\* occurrence of a repeated name stay where they were
C24_SinglesAndFirstKept ==
    pc = "renamed" =>
        /\ Len(df_result) = Len(df_arg)
        /\ \A i \in DOMAIN df_arg :
              (\A j \in 1 .. i - 1 : df_arg[j] # df_arg[i]) => df_result[i] = df_arg[i]

\* the names are distinct when no input name is a repeated name with a suffix
C24_DistinctWithoutSuffixedNames ==
    pc = "renamed" /\ Range(df_arg) \subseteq {<<"a">>, <<"b">>} =>
        \A i, j \in DOMAIN df_result : i # j => df_result[i] # df_result[j]

\* ['a', 'a', 'a_1'] becomes ['a', 'a_1', 'a_1']
C24_Collision ==
    /\ pc = "renamed"
    /\ df_arg = << <<"a">>, <<"a">>, <<"a", "_", "1">> >>
    /\ df_result = << <<"a">>, <<"a", "_", "1">>, <<"a", "_", "1">> >>

=============================================================================
